---- MODULE Spec2Model ----
(***************************************************************************)
(* A model of the MAILDASH ingestion and query core                        *)
(* (backend/app/analytics.py, stats.py, display_by_date.py and the two     *)
(* callers of ingest_excel in main.py and auto_fetcher.py).                *)
(*                                                                         *)
(* Text is modelled as a sequence of one-character strings, so that        *)
(* trimming, upper-casing, regular-expression matching and formatting are  *)
(* computed character by character as the code computes them.              *)
(***************************************************************************)
EXTENDS Integers, Sequences, FiniteSets, Bags, TLC

(***************************************************************************)
(* Text helpers                                                            *)
(***************************************************************************)

\* Python None / SQL NULL.  "NULL" is not a single character, so this value
\* is different from every text.
NULL == <<"NULL">>

DigitChars == <<"0", "1", "2", "3", "4", "5", "6", "7", "8", "9">>

IsDigit(c) == \E i \in 1..10 : DigitChars[i] = c

DigitVal(c) == (CHOOSE i \in 1..10 : DigitChars[i] = c) - 1

DigitChar(n) == DigitChars[n + 1]

IsSpace(c) == c = " "

RECURSIVE LStrip(_)
LStrip(s) == IF s # <<>> /\ IsSpace(Head(s)) THEN LStrip(Tail(s)) ELSE s

RECURSIVE RStrip(_)
RStrip(s) ==
    IF s # <<>> /\ IsSpace(s[Len(s)]) THEN RStrip(SubSeq(s, 1, Len(s) - 1)) ELSE s

\* str.strip()
Strip(s) == RStrip(LStrip(s))

UpperChar(c) ==
    CASE c = "l" -> "L"
      [] c = "f" -> "F"
      [] c = "e" -> "E"
      [] c = "a" -> "A"
      [] OTHER -> c

\* str.upper()
Upper(s) == [i \in 1..Len(s) |-> UpperChar(s[i])]

\* int(text) for a text of decimal digits
RECURSIVE NumVal(_)
NumVal(s) ==
    IF s = <<>> THEN 0 ELSE 10 * NumVal(SubSeq(s, 1, Len(s) - 1)) + DigitVal(s[Len(s)])

AllDigits(s) == \A i \in 1..Len(s) : IsDigit(s[i])

\* zero-padded decimal of width 2 and 4 (strftime %m %d %H %M %S and %Y)
Pad2(n) == <<DigitChar((n \div 10) % 10), DigitChar(n % 10)>>

Pad4(n) == <<DigitChar((n \div 1000) % 10), DigitChar((n \div 100) % 10)>> \o Pad2(n % 100)

(***************************************************************************)
(* Timestamps: analytics.py, _parse_header and _iso_utc                    *)
(***************************************************************************)

\* "no match" / None / NaT
NoMatch == [year |-> 0, month |-> 0, day |-> 0, hour |-> 0, minute |-> 0, second |-> 0]

IsLeap(y) == (y % 4 = 0 /\ y % 100 # 0) \/ y % 400 = 0

DaysInMonth(y, m) ==
    CASE m \in {1, 3, 5, 7, 8, 10, 12} -> 31
      [] m \in {4, 6, 9, 11} -> 30
      [] m = 2 -> IF IsLeap(y) THEN 29 ELSE 28
      [] OTHER -> 0

\* pd.to_datetime(f"{year_hint}-{mm}-{dd} {hh}:{mi}", format="%Y-%m-%d %H:%M"):
\* a ValueError (caught by the caller) for a value that is no calendar value
ToDatetime(y, mm, dd, hh, mi) ==
    LET m == NumVal(mm)
        d == NumVal(dd)
        h == NumVal(hh)
        n == NumVal(mi)
    IN  IF /\ m >= 1 /\ m <= 12
           /\ d >= 1 /\ d <= DaysInMonth(y, m)
           /\ h <= 23
           /\ n <= 59
        THEN [year |-> y, month |-> m, day |-> d, hour |-> h, minute |-> n, second |-> 0]
        ELSE NoMatch

SepChars == {"-", "_", " "}

\* One way of cutting txt into the groups of
\*   (\d{1,2})/(\d{1,2})[-_ ]?(\d{1,2})(\d{2})$
\* a month digits, b day digits, s separator characters, c hour digits.
GroupsFit(txt, a, b, s, c) ==
    /\ Len(txt) = a + 1 + b + s + c + 2
    /\ AllDigits(SubSeq(txt, 1, a))
    /\ txt[a + 1] = "/"
    /\ AllDigits(SubSeq(txt, a + 2, a + 1 + b))
    /\ s = 1 => txt[a + 2 + b] \in SepChars
    /\ AllDigits(SubSeq(txt, a + 2 + b + s, Len(txt)))

\* The order in which the backtracking matcher tries the cuts: every
\* quantifier is greedy, the leftmost varies slowest.
CutOrder ==
    << <<2, 2, 1, 2>>, <<2, 2, 1, 1>>, <<2, 2, 0, 2>>, <<2, 2, 0, 1>>,
       <<2, 1, 1, 2>>, <<2, 1, 1, 1>>, <<2, 1, 0, 2>>, <<2, 1, 0, 1>>,
       <<1, 2, 1, 2>>, <<1, 2, 1, 1>>, <<1, 2, 0, 2>>, <<1, 2, 0, 1>>,
       <<1, 1, 1, 2>>, <<1, 1, 1, 1>>, <<1, 1, 0, 2>>, <<1, 1, 0, 1>> >>

NoCut == <<0, 0, 0, 0>>

RECURSIVE FirstCut(_, _)
FirstCut(txt, i) ==
    IF i > Len(CutOrder) THEN NoCut
    ELSE IF GroupsFit(txt, CutOrder[i][1], CutOrder[i][2], CutOrder[i][3], CutOrder[i][4])
         THEN CutOrder[i]
         ELSE FirstCut(txt, i + 1)

\* an hour group of exactly two digits, (\d{2})(\d{2})$
HeaderMatchStrictHour(txt) ==
    LET k == FirstCut(txt, 1) IN IF k[4] = 2 THEN k ELSE NoCut

\* re.match(...): the cut of the first successful match, or NoCut
HeaderMatch(txt) == FirstCut(txt, 1)

\* _parse_header(col, year_hint)
ParseHeader(col, year_hint) ==
    LET txt == Strip(col)
        k == HeaderMatch(txt)
        a == k[1]
        b == k[2]
        s == k[3]
        c == k[4]
    IN  IF k = NoCut THEN NoMatch
        ELSE ToDatetime(year_hint,
                        SubSeq(txt, 1, a),
                        SubSeq(txt, a + 2, a + 1 + b),
                        SubSeq(txt, a + 2 + b + s, a + 1 + b + s + c),
                        SubSeq(txt, a + 2 + b + s + c, Len(txt)))

\* ts.tz_convert("UTC").strftime("%Y-%m-%d %H:%M:%S%z"): the offset comes
\* out as +0000
Strftime(ts) ==
    Pad4(ts.year) \o <<"-">> \o Pad2(ts.month) \o <<"-">> \o Pad2(ts.day) \o <<" ">>
        \o Pad2(ts.hour) \o <<":">> \o Pad2(ts.minute) \o <<":">> \o Pad2(ts.second)
        \o <<"+", "0", "0", "0", "0">>

\* _ISO_NO_COLON_RE.sub(...): a colon into a trailing (+|-)hhmm
InsertColon(s) ==
    LET n == Len(s) IN
    IF /\ n >= 5
       /\ s[n - 4] \in {"+", "-"}
       /\ AllDigits(SubSeq(s, n - 3, n))
    THEN SubSeq(s, 1, n - 2) \o <<":">> \o SubSeq(s, n - 1, n)
    ELSE s

IsoUtcNoColon(ts) == IF ts = NoMatch THEN NULL ELSE Strftime(ts)

\* _iso_utc(dt) of a timestamp
IsoUtc(ts) == IF ts = NoMatch THEN NULL ELSE InsertColon(Strftime(ts))

\* pd.to_datetime(text, utc=True, errors="coerce") for the texts a mail's
\* receivedDateTime takes here, "YYYY-MM-DDTHH:MM:SSZ"; any other text is NaT
ParseIsoText(s) ==
    IF /\ Len(s) = 20
       /\ AllDigits(SubSeq(s, 1, 4)) /\ s[5] = "-"
       /\ AllDigits(SubSeq(s, 6, 7)) /\ s[8] = "-"
       /\ AllDigits(SubSeq(s, 9, 10)) /\ s[11] = "T"
       /\ AllDigits(SubSeq(s, 12, 13)) /\ s[14] = ":"
       /\ AllDigits(SubSeq(s, 15, 16)) /\ s[17] = ":"
       /\ AllDigits(SubSeq(s, 18, 19)) /\ s[20] = "Z"
    THEN LET t == ToDatetime(NumVal(SubSeq(s, 1, 4)), SubSeq(s, 6, 7), SubSeq(s, 9, 10),
                             SubSeq(s, 12, 13), SubSeq(s, 15, 16))
             sec == NumVal(SubSeq(s, 18, 19))
         IN  IF t = NoMatch \/ sec > 59 THEN NoMatch ELSE [t EXCEPT !.second = sec]
    ELSE NoMatch

\* _iso_utc(dt) of a text or None
IsoUtcText(received_iso) ==
    IF received_iso = NULL THEN NULL ELSE IsoUtc(ParseIsoText(received_iso))

InferYearNow(received_iso, now_year) == now_year

\* _infer_year(received_iso); now_year is datetime.now(timezone.utc).year
InferYear(received_iso, now_year) ==
    LET ts == IsoUtcText(received_iso) IN
    IF ts # NULL THEN NumVal(SubSeq(ts, 1, 4)) ELSE now_year

(***************************************************************************)
(* Sheets: analytics.py, _normalize_sheet                                  *)
(*                                                                         *)
(* A data frame is [columns, rows]: the header texts and, per row, one     *)
(* cell per column.  A cell is NaN, a number or a text.                    *)
(***************************************************************************)

NaN == [kind |-> "nan", num |-> 0, str |-> <<>>]

Num(n) == [kind |-> "num", num |-> n, str |-> <<>>]

Str(s) == [kind |-> "str", num |-> 0, str |-> s]

EmptyFrame == [columns |-> <<>>, rows |-> <<>>]

\* DataFrame.empty
FrameEmpty(df) == Len(df.columns) = 0 \/ Len(df.rows) = 0

RECURSIVE SelectSeq2(_, _, _)
\* the elements of s at the indices (in order) that satisfy Keep
SelectSeq2(s, Keep(_), i) ==
    IF i > Len(s) THEN <<>>
    ELSE (IF Keep(i) THEN <<s[i]>> ELSE <<>>) \o SelectSeq2(s, Keep, i + 1)

\* df.dropna(axis=0, how="all").dropna(axis=1, how="all")
DropNa(df) ==
    LET RowKept(i) == \E j \in 1..Len(df.columns) : df.rows[i][j] # NaN
        rows1 == SelectSeq2(df.rows, RowKept, 1)
        ColKept(j) == \E i \in 1..Len(rows1) : rows1[i][j] # NaN
        CutRow(row) == LET K(j) == ColKept(j) IN SelectSeq2(row, K, 1)
    IN  [columns |-> SelectSeq2(df.columns, ColKept, 1),
         rows |-> [i \in 1..Len(rows1) |-> CutRow(rows1[i])]]

RECURSIVE Dec(_)
\* str(n) of a number n >= 0
Dec(n) == IF n < 10 THEN <<DigitChar(n)>> ELSE Dec(n \div 10) \o <<DigitChar(n % 10)>>

\* Series.astype(str) of one cell
AsStr(cell) ==
    CASE cell.kind = "nan" -> <<"n", "a", "n">>
      [] cell.kind = "num" -> Dec(cell.num)
      [] OTHER -> cell.str

\* pd.to_numeric(cell, errors="coerce"): NaN for what is no number
ToNumeric(cell) ==
    CASE cell.kind = "num" -> cell
      [] cell.kind = "str" /\ cell.str # <<>> /\ AllDigits(cell.str) -> Num(NumVal(cell.str))
      [] OTHER -> NaN

RECURSIVE Flatten(_)
Flatten(ss) == IF ss = <<>> THEN <<>> ELSE Head(ss) \o Flatten(Tail(ss))

RegionOrNoneKeepBlank(region) == region

\* region if (region and str(region).strip()) else None
RegionOrNone(region) ==
    IF region # NULL /\ region # <<>> /\ Strip(region) # <<>> THEN region ELSE NULL

\* fillna(0): a row with the value 0 for a cell that is no number
FillNaValue(v, row) == IF v = NaN THEN <<row>> ELSE << [row EXCEPT !.value = v.num] >>

\* long_df.dropna(subset=["value"]) for one melted cell with the coerced
\* value v: its row, or no row when v is NaN
DropNaValue(v, row) == IF v = NaN THEN <<>> ELSE << [row EXCEPT !.value = v.num] >>

\* _normalize_sheet(df, client=, region=, workspace=, message_id=,
\* received_iso=, sheet_name=): the long frame, as the sequence of its rows
NormalizeSheet(df0, client, region, workspace, message_id, received_iso, sheet_name, now_year) ==
    LET df == DropNa(df0) IN
    IF FrameEmpty(df) THEN <<>>
    ELSE
    LET label(i) == Strip(AsStr(df.rows[i][1]))
        HasLabel(i) == label(i) # <<>>
        rowIdx == LET Idx == [i \in 1..Len(df.rows) |-> i] IN SelectSeq2(Idx, HasLabel, 1)
        year_hint == InferYear(received_iso, now_year)
        col_ts == [j \in 1..Len(df.columns) |->
                     IF j = 1 THEN NoMatch ELSE ParseHeader(df.columns[j], year_hint)]
        Usable(j) == col_ts[j] # NoMatch
        colIdx == LET Idx == [j \in 1..Len(df.columns) |-> j] IN SelectSeq2(Idx, Usable, 1)
    IN
    IF Len(colIdx) = 0 THEN <<>>
    ELSE
    LET Point(i, j) ==
            DropNaValue(ToNumeric(df.rows[i][j]),
                        [client |-> client,
                         region |-> RegionOrNone(region),
                         workspace |-> workspace,
                         parameter |-> label(i),
                         ts_utc |-> IsoUtc(col_ts[j]),
                         value |-> 0,
                         message_id |-> message_id,
                         received_utc |-> IsoUtcText(received_iso),
                         sheet_name |-> sheet_name])
        \* melt: column by column, the rows in order within a column
        Column(j) == Flatten([k \in 1..Len(rowIdx) |-> Point(rowIdx[k], j)])
    IN  Flatten([k \in 1..Len(colIdx) |-> Column(colIdx[k])])

IngestBatchAllSheets(workbook, client, region, message_id, received_iso, now_year) ==
    LET Sheet(k) == NormalizeSheet(workbook[k].df, client, region,
                                   Upper(Strip(workbook[k].name)),
                                   message_id, received_iso, workbook[k].name, now_year)
    IN  IF \E k \in 1..Len(workbook) : Sheet(k) = <<>> THEN <<>>
        ELSE Flatten([k \in 1..Len(workbook) |-> Sheet(k)])

\* ingest_excel up to its call of append_timeseries: the batch (final_df) of
\* a workbook, a sequence of sheets [name, df]
IngestBatch(workbook, client, region, message_id, received_iso, now_year) ==
    Flatten([k \in 1..Len(workbook) |->
               NormalizeSheet(workbook[k].df, client, region,
                              Upper(Strip(workbook[k].name)),
                              message_id, received_iso, workbook[k].name, now_year)])

(***************************************************************************)
(* The table timeseries_data: analytics.py, _ensure_table and              *)
(* append_timeseries.  A table is a bag of rows.                           *)
(***************************************************************************)

\* uq_tsd_with_region: (client, region, sheet_name, parameter, ts_utc)
\* WHERE region IS NOT NULL
WithRegionKey(r) == <<r.client, r.region, r.sheet_name, r.parameter, r.ts_utc>>

\* uq_tsd_without_region: (client, sheet_name, parameter, ts_utc)
\* WHERE region IS NULL
WithoutRegionKey(r) == <<r.client, r.sheet_name, r.parameter, r.ts_utc>>

\* a single unique index on (client, region, sheet_name, parameter, ts_utc):
\* rows with a NULL region never collide
ConflictWithRegionOnly(r, s) ==
    r.region # NULL /\ s.region # NULL /\ WithRegionKey(r) = WithRegionKey(s)

ConflictIgnoringRegion(r, s) == WithoutRegionKey(r) = WithoutRegionKey(s)

\* r and s cannot both be in the table: they collide in one of the two
\* partial unique indexes
Conflict(r, s) ==
    \/ r.region # NULL /\ s.region # NULL /\ WithRegionKey(r) = WithRegionKey(s)
    \/ r.region = NULL /\ s.region = NULL /\ WithoutRegionKey(r) = WithoutRegionKey(s)

PlainInsert(tbl, r) == tbl (+) SetToBag({r})

\* INSERT OR IGNORE: the stored row stays
InsertOrIgnore(tbl, r) ==
    IF \E s \in BagToSet(tbl) :
          \/ r.region # NULL /\ s.region # NULL /\ WithRegionKey(r) = WithRegionKey(s)
          \/ r.region = NULL /\ s.region = NULL /\ WithoutRegionKey(r) = WithoutRegionKey(s)
    THEN tbl
    ELSE tbl (+) SetToBag({r})

\* INSERT OR REPLACE INTO timeseries_data ... of one row: the rows that
\* collide with it are deleted, then it is inserted
InsertOrReplace(tbl, r) ==
    LET keep == {s \in BagToSet(tbl) : ~Conflict(r, s)}
    IN  [s \in keep |-> tbl[s]] (+) SetToBag({r})

\* df_long["parameter"].nunique()
NUnique(rows) == Cardinality({rows[i].parameter : i \in 1..Len(rows)})

\* executemany(...) over rows[from..]: the rows upserted one after another
RECURSIVE ApplyRows(_, _, _)
ApplyRows(tbl, rows, from) ==
    IF from > Len(rows) THEN tbl
    ELSE ApplyRows(InsertOrReplace(tbl, rows[from]), rows, from + 1)

(***************************************************************************)
(* Inputs of the model                                                     *)
(***************************************************************************)

\* how many calls of ingest_excel a behaviour makes
MaxIngests == 2

\* how many times the UTC year changes during a behaviour
MaxTicks == 1

Writers == {"api", "auto"}

ParamP == Str(<<"P">>)

ParamQ == Str(<<"Q">>)

LabelHeader == <<"p">>

\* "08/21-0930"
H0930 == <<"0", "8", "/", "2", "1", "-", "0", "9", "3", "0">>

\* "8/21 930": another header text of the same instant
H0930b == <<"8", "/", "2", "1", " ", "9", "3", "0">>

\* "note": no timestamp header
HNote == <<"n", "o", "t", "e">>

\* "2024-08-22T10:00:00Z"
Received2024 ==
    <<"2", "0", "2", "4", "-", "0", "8", "-", "2", "2", "T",
      "1", "0", ":", "0", "0", ":", "0", "0", "Z">>

\* labels P and Q under one timestamp header
SheetPQ(name, v1, v2) ==
    [name |-> name,
     df |-> [columns |-> <<LabelHeader, H0930>>,
             rows |-> << <<ParamP, Num(v1)>>, <<ParamQ, Num(v2)>> >>]]

\* labels P and Q under two header texts of the same instant; Q has no value
\* in the second column
SheetTwice(name, v1, v2, v3) ==
    [name |-> name,
     df |-> [columns |-> <<LabelHeader, H0930, H0930b>>,
             rows |-> << <<ParamP, Num(v1), Num(v3)>>, <<ParamQ, Num(v2), NaN>> >>]]

\* a sheet without a timestamp header
SheetNote(name) ==
    [name |-> name,
     df |-> [columns |-> <<LabelHeader, HNote>>,
             rows |-> << <<ParamP, Num(7)>> >>]]

MailIds == {"m1", "m2", "m3"}

\* what fetch_save_for_pair hands over: the saved workbook, the message key
\* and receivedDateTime
Mail(id) ==
    CASE id = "m1" ->
           [message_id |-> "m1", received_iso |-> Received2024,
            workbook |-> <<SheetNote(<<"F">>), SheetPQ(<<"L">>, 10, 30)>>]
      [] id = "m2" ->
           [message_id |-> "m2", received_iso |-> NULL,
            workbook |-> <<SheetTwice(<<"L">>, 20, 31, 21)>>]
      [] OTHER ->
           [message_id |-> "m3", received_iso |-> Received2024,
            workbook |-> <<SheetNote(<<"F">>)>>]

ClientX == <<"x">>

ClientY == <<"y">>

\* the calls ingest_excel(path, client=, region=, ...) of the model, as
\* <<client, region, mail>>; the region argument is None, "", " ", "E" or "A"
Calls ==
    ({ <<ClientX, (<<>>)>>, <<ClientX, (<<"E">>)>> } \X MailIds)
    \cup { <<(<<ClientX, NULL>>), "m1">>,
           <<(<<ClientX, (<<" ">>)>>), "m2">>,
           <<(<<ClientX, (<<"A">>)>>), "m1">>,
           <<(<<ClientY, (<<"E">>)>>), "m1">> }

\* the batch ingest_excel builds, for every call and UTC year of the model
Batches ==
    [c \in Calls, y \in 2024..(2024 + MaxTicks) |->
       IngestBatch(Mail(c[2]).workbook, c[1][1], c[1][2], Mail(c[2]).message_id,
                   Mail(c[2]).received_iso, y)]

(***************************************************************************)
(* State                                                                   *)
(***************************************************************************)

VARIABLES
    db,        \* timeseries_data as committed
    lock,      \* the connection that holds the write lock, or "none"
    txn,       \* the table as the open write transaction sees it
    pc,        \* per writer: "idle", "ready" (batch built), "writing"
    job,       \* per writer: the call of ingest_excel it is in
    outcome,   \* per writer: what its last call returned or raised
    now_year,  \* datetime.now(timezone.utc).year
    ingests,   \* calls of ingest_excel so far
    hist,      \* the last commit: the table before it, its batch, its call
    col,       \* header parsing: the header text
    year_hint, \* header parsing: the year hint
    parsed,    \* header parsing: _parse_header's result
    iso,       \* header parsing: _iso_utc of the result
    points,    \* header parsing: the points of a sheet with this one header
    phase,     \* header parsing: "input", "parsed", "formatted", "normalized"
    frame,     \* the sheet _normalize_sheet is given
    workbook,  \* the workbook ingest_excel is given, on its own
    query,     \* the last query: the operation and its arguments
    matched,   \* the stored rows its WHERE clause selected
    response,  \* what it returned
    stats,     \* what compute_stats returned
    clients,   \* data/clients.json: per client its node, or NoNode
    loop,      \* the auto-fetch thread: "sleeping" or "cycle"
    filters,   \* the filters run_auto_fetch_cycle generated
    cursor,    \* the filter its loop is at
    log,       \* the filters processed in this cycle and what each call returned
    cycles,    \* cycles started so far
    fetched    \* the batch ingest_excel builds of the workbook a fetch saves

storeVars == <<db, lock, txn, pc, job, outcome, now_year, ingests, hist>>

parseVars == <<col, year_hint, parsed, iso, points, phase, frame, workbook>>

queryVars == <<query, matched, response, stats>>

fetchVars == <<clients, loop, filters, cursor, log, cycles, fetched>>

vars == <<db, lock, txn, pc, job, outcome, now_year, ingests, hist,
          col, year_hint, parsed, iso, points, phase, frame, workbook,
          query, matched, response, stats,
          clients, loop, filters, cursor, log, cycles, fetched>>

NoCall == [client |-> NULL, region |-> NULL, mail |-> "", year |-> 0]

NoJob == [call |-> NoCall, rows |-> <<>>, next |-> 1]

NoOutcome == [kind |-> "none", rows_written |-> 0, unique_parameters |-> 0, executed |-> 0]

\* an exception; executed: the statements of the batch that had run
Raised(k) == [kind |-> "error", rows_written |-> 0, unique_parameters |-> 0, executed |-> k]

Returned(n, u) == [kind |-> "ok", rows_written |-> n, unique_parameters |-> u, executed |-> n]

NoHist == [before |-> EmptyBag, rows |-> <<>>, call |-> NoCall, prev |-> NoCall]

InitStore ==
    /\ db = EmptyBag
    /\ lock = "none"
    /\ txn = EmptyBag
    /\ pc = [w \in Writers |-> "idle"]
    /\ job = [w \in Writers |-> NoJob]
    /\ outcome = [w \in Writers |-> NoOutcome]
    /\ now_year = 2024
    /\ ingests = 0
    /\ hist = NoHist

InitParseIdle ==
    /\ col = <<>>
    /\ year_hint = 0
    /\ parsed = NoMatch
    /\ iso = NULL
    /\ points = <<>>
    /\ phase = "input"
    /\ frame = EmptyFrame
    /\ workbook = <<>>

NoQuery ==
    [op |-> "none", client |-> NULL, region |-> NULL, workspace |-> NULL,
     mode |-> "", date |-> NULL, time_slot |-> NULL, sheet |-> NULL]

\* status: "ok", "bad_request" (400), "not_found" (404), "bad_mode"
\* (ok: False); reason and allowed: those of a rejection; ts: the timestamp
\* the rows were selected by
NoResponse == [status |-> "none", rows |-> EmptyBag, ts |-> NULL, reason |-> "", allowed |-> {}]

\* compute_stats has not returned; days is the clamped n of the keys
\* f"{n}d" and f"{n}m"
NoStats ==
    [ok |-> FALSE, note |-> "", basis |-> "", n |-> 0, days |-> 0,
     range |-> [from |-> NULL, to |-> NULL], by_parameter |-> <<>>]

InitQueryIdle ==
    /\ query = NoQuery
    /\ matched = EmptyBag
    /\ response = NoResponse
    /\ stats = NoStats

ClientNames == {ClientX, ClientY}

\* a client that clients.json has no entry of
NoNode == [present |-> FALSE, has_sender |-> FALSE, sender |-> <<>>, regions |-> <<>>]

\* clients.json does not exist and the auto-fetch thread has not run a cycle
InitFetchIdle ==
    /\ clients = [c \in ClientNames |-> NoNode]
    /\ loop = "sleeping"
    /\ filters = <<>>
    /\ cursor = 1
    /\ log = <<>>
    /\ cycles = 0
    /\ fetched = <<>>

(***************************************************************************)
(* Ingestion: ingest_excel and append_timeseries, called by the auto-fetch *)
(* thread (auto_fetcher.process_auto_fetch_filter) and by the request      *)
(* handler api_ingest_by_client_region                                     *)
(***************************************************************************)

\* ingest_excel(...) up to the first statement of append_timeseries'
\* transaction; (0, 0) when no sheet yields rows
IngestExcel(w, client, region, id) ==
    LET m == Mail(id)
        rows == Batches[<<(<<client, region>>), id>>, now_year]
        call == [client |-> client, region |-> region, mail |-> id,
                 year |-> InferYear(m.received_iso, now_year)]
    IN  /\ pc[w] = "idle"
        /\ ingests < MaxIngests
        /\ ingests' = ingests + 1
        /\ IF rows = <<>>
           THEN /\ outcome' = [outcome EXCEPT ![w] = Returned(0, 0)]
                /\ UNCHANGED <<pc, job>>
           ELSE /\ pc' = [pc EXCEPT ![w] = "ready"]
                /\ job' = [job EXCEPT ![w] = [call |-> call, rows |-> rows, next |-> 1]]
                /\ outcome' = [outcome EXCEPT ![w] = NoOutcome]
        /\ UNCHANGED <<db, lock, txn, now_year, hist>>
        /\ UNCHANGED <<parseVars, queryVars, fetchVars>>

ExecuteAutocommit(w) ==
    /\ pc[w] \in {"ready", "writing"}
    /\ job[w].next <= Len(job[w].rows)
    /\ db' = InsertOrReplace(db, job[w].rows[job[w].next])
    /\ pc' = [pc EXCEPT ![w] = "writing"]
    /\ job' = [job EXCEPT ![w].next = @ + 1]
    /\ txn' = db'
    /\ lock' = w
    /\ UNCHANGED <<outcome, now_year, ingests, hist>>
    /\ UNCHANGED <<parseVars, queryVars, fetchVars>>

\* one row of conn.executemany("INSERT OR REPLACE ..."): the first one opens
\* the write transaction, which takes the database's write lock
Execute(w) ==
    /\ pc[w] \in {"ready", "writing"}
    /\ job[w].next <= Len(job[w].rows)
    /\ IF pc[w] = "ready"
       THEN /\ lock = "none"
            /\ lock' = w
            /\ txn' = InsertOrReplace(db, job[w].rows[1])
       ELSE /\ lock' = lock
            /\ txn' = InsertOrReplace(txn, job[w].rows[job[w].next])
    /\ pc' = [pc EXCEPT ![w] = "writing"]
    /\ job' = [job EXCEPT ![w].next = @ + 1]
    /\ UNCHANGED <<db, outcome, now_year, ingests, hist>>
    /\ UNCHANGED <<parseVars, queryVars, fetchVars>>

\* conn.commit() and the return of append_timeseries
Commit(w) ==
    /\ pc[w] = "writing"
    /\ job[w].next > Len(job[w].rows)
    /\ db' = txn
    /\ lock' = "none"
    /\ txn' = EmptyBag
    /\ hist' = [before |-> db, rows |-> job[w].rows, call |-> job[w].call,
                prev |-> hist.call]
    /\ outcome' = [outcome EXCEPT ![w] = Returned(Len(job[w].rows), NUnique(job[w].rows))]
    /\ pc' = [pc EXCEPT ![w] = "idle"]
    /\ job' = [job EXCEPT ![w] = NoJob]
    /\ UNCHANGED <<now_year, ingests>>
    /\ UNCHANGED <<parseVars, queryVars, fetchVars>>

StorageFailureKeepsRows(w) ==
    /\ pc[w] = "writing"
    /\ db' = txn
    /\ lock' = "none"
    /\ txn' = EmptyBag
    /\ outcome' = [outcome EXCEPT ![w] = Raised(job[w].next - 1)]
    /\ pc' = [pc EXCEPT ![w] = "idle"]
    /\ job' = [job EXCEPT ![w] = NoJob]
    /\ UNCHANGED <<now_year, ingests, hist>>
    /\ UNCHANGED <<parseVars, queryVars, fetchVars>>

\* the storage engine fails inside the with-block (at a statement or at the
\* commit): the connection's context manager rolls the transaction back and
\* the exception leaves append_timeseries
StorageFailure(w) ==
    /\ pc[w] = "writing"
    /\ lock' = "none"
    /\ txn' = EmptyBag
    /\ outcome' = [outcome EXCEPT ![w] = Raised(job[w].next - 1)]
    /\ pc' = [pc EXCEPT ![w] = "idle"]
    /\ job' = [job EXCEPT ![w] = NoJob]
    /\ UNCHANGED <<db, now_year, ingests, hist>>
    /\ UNCHANGED <<parseVars, queryVars, fetchVars>>

\* the first statement finds the write lock taken for longer than the busy
\* timeout: sqlite3.OperationalError, database is locked
DatabaseLocked(w) ==
    /\ pc[w] = "ready"
    /\ lock # "none"
    /\ outcome' = [outcome EXCEPT ![w] = Raised(0)]
    /\ pc' = [pc EXCEPT ![w] = "idle"]
    /\ job' = [job EXCEPT ![w] = NoJob]
    /\ UNCHANGED <<db, lock, txn, now_year, ingests, hist>>
    /\ UNCHANGED <<parseVars, queryVars, fetchVars>>

\* the UTC year changes
NewYear ==
    /\ now_year < 2024 + MaxTicks
    /\ now_year' = now_year + 1
    /\ UNCHANGED <<db, lock, txn, pc, job, outcome, ingests, hist>>
    /\ UNCHANGED <<parseVars, queryVars, fetchVars>>

\* api_ingest_by_client_region after its call of ingest_excel, o being what
\* the call returned or raised: the fields of PairPreviewResponse that depend
\* on it (an exception is printed and the counts are set to 0, 0)
ApiIngestResponse(o) ==
    LET counts == IF o.kind = "error" THEN <<0, 0>>
                  ELSE <<o.rows_written, o.unique_parameters>>
    IN  [ok |-> TRUE, reason |-> <<"DB ingest", counts[1], "rows", counts[2], "params">>]

\* process_auto_fetch_filter after its call of ingest_excel: True when the
\* call returned, False when it raised
ProcessAutoFetchFilter(o) == o.kind # "error"

Init == InitStore /\ InitParseIdle /\ InitQueryIdle /\ InitFetchIdle

Next ==
    \/ \E w \in Writers, c \in Calls : IngestExcel(w, c[1][1], c[1][2], c[2])
    \/ \E w \in Writers : Execute(w)
    \/ \E w \in Writers : Commit(w)
    \/ \E w \in Writers : StorageFailure(w)
    \/ \E w \in Writers : DatabaseLocked(w)
    \/ NewYear

Spec == Init /\ [][Next]_vars

(***************************************************************************)
(* Header parsing on its own: a header text and a year hint are drawn,     *)
(* then parsed (_parse_header), formatted (_iso_utc) and run through       *)
(* _normalize_sheet as the only value column of a sheet                    *)
(***************************************************************************)

MonthTexts == {<<"8">>, <<"0", "8">>, <<"2">>, <<"1", "3">>, <<"0">>}

DayTexts == {<<"2", "1">>, <<"1">>, <<"2", "9">>, <<"3", "1">>, <<"0">>, <<"4">>}

GapTexts == {<<>>, <<"-">>, <<"_">>, <<" ">>, <<"-", "-">>}

TimeTexts ==
    {<<"0", "9", "3", "0">>, <<"9", "3", "0">>, <<"1", "7", "3", "0">>, <<"1", "2", "3", "0">>,
     <<"2", "4", "0", "0">>, <<"0", "9", "6", "0">>, <<"3", "0">>}

\* nothing around the header, blanks around it, a letter after it
Wraps == {<<(<<>>), (<<>>)>>, <<(<<" ">>), (<<" ">>)>>, <<(<<>>), (<<"x">>)>>}

\* header texts of other shapes: "", "note", "08-21-0930", "08/21",
\* "108/21-0930", "08/21-09300"
OtherHeaders ==
    {<<>>, HNote,
     <<"0", "8", "-", "2", "1", "-", "0", "9", "3", "0">>,
     <<"0", "8", "/", "2", "1">>,
     <<"1", "0", "8", "/", "2", "1", "-", "0", "9", "3", "0">>,
     <<"0", "8", "/", "2", "1", "-", "0", "9", "3", "0", "0">>}

Headers ==
    {w[1] \o m \o <<"/">> \o d \o g \o t \o w[2] :
        w \in Wraps, m \in MonthTexts, d \in DayTexts, g \in GapTexts, t \in TimeTexts}
    \cup OtherHeaders

\* 2023 has no 29 February, 2024 has one
YearHints == {2023, 2024}

InitParse ==
    /\ InitStore
    /\ InitQueryIdle
    /\ InitFetchIdle
    /\ col \in Headers
    /\ year_hint \in YearHints
    /\ parsed = NoMatch
    /\ iso = NULL
    /\ points = <<>>
    /\ phase = "input"
    /\ frame = [columns |-> <<LabelHeader, col>>, rows |-> << <<ParamP, Num(5)>> >>]
    /\ workbook = <<>>

\* ts = _parse_header(str(col), year_hint)
ParseStep ==
    /\ phase = "input"
    /\ parsed' = ParseHeader(col, year_hint)
    /\ phase' = "parsed"
    /\ UNCHANGED <<col, year_hint, iso, points, frame, workbook>>
    /\ UNCHANGED <<storeVars, queryVars, fetchVars>>

\* _iso_utc(ts)
FormatStep ==
    /\ phase = "parsed"
    /\ iso' = IsoUtc(parsed)
    /\ phase' = "formatted"
    /\ UNCHANGED <<col, year_hint, parsed, points, frame, workbook>>
    /\ UNCHANGED <<storeVars, queryVars, fetchVars>>

\* _normalize_sheet of a sheet with the label P, this header and the value 5,
\* received_iso None in the UTC year year_hint
NormalizeStep ==
    /\ phase = "formatted"
    /\ points' = NormalizeSheet(frame, ClientX, NULL, <<"L">>, "m1", NULL, <<"L">>, year_hint)
    /\ phase' = "normalized"
    /\ UNCHANGED <<col, year_hint, parsed, iso, frame, workbook>>
    /\ UNCHANGED <<storeVars, queryVars, fetchVars>>

NextParse == ParseStep \/ FormatStep \/ NormalizeStep

SpecParse == InitParse /\ [][NextParse]_vars


(***************************************************************************)
(* _normalize_sheet on its own: a sheet of two rows and two value columns  *)
(* is drawn, then normalized                                               *)
(***************************************************************************)

\* "08/21-1730"
H1730 == <<"0", "8", "/", "2", "1", "-", "1", "7", "3", "0">>

\* labels: "P", " Q ", " ", "", an empty cell
LabelCells == {ParamP, Str(<<" ", "Q", " ">>), Str(<<" ">>), Str(<<>>), NaN}

\* cells: 5, an empty cell, "n/a", "12"
ValueCells == {Num(5), NaN, Str(<<"n", "/", "a">>), Str(<<"1", "2">>)}

SheetRows == LabelCells \X ValueCells \X ValueCells

Frames ==
    {[columns |-> <<LabelHeader, H0930, h>>, rows |-> <<r1, r2>>] :
        h \in {H1730, HNote}, r1 \in SheetRows, r2 \in SheetRows}

InitSheet ==
    /\ InitStore
    /\ InitQueryIdle
    /\ InitFetchIdle
    /\ col = <<>>
    /\ year_hint = 0
    /\ parsed = NoMatch
    /\ iso = NULL
    /\ points = <<>>
    /\ phase = "input"
    /\ frame \in Frames
    /\ workbook = <<>>

\* _normalize_sheet(df, client="x", region=None, workspace="L",
\* message_id="m1", received_iso="2024-08-22T10:00:00Z", sheet_name="L")
NormalizeSheetStep ==
    /\ phase = "input"
    /\ points' = NormalizeSheet(frame, ClientX, NULL, <<"L">>, "m1", Received2024, <<"L">>, 2024)
    /\ phase' = "normalized"
    /\ UNCHANGED <<col, year_hint, parsed, iso, frame, workbook>>
    /\ UNCHANGED <<storeVars, queryVars, fetchVars>>

NextSheet == NormalizeSheetStep

SpecSheet == InitSheet /\ [][NextSheet]_vars

(***************************************************************************)
(* Queries: stats.py (_read_df, api_display_latest) and                    *)
(* display_by_date.py (display_by_date).                                   *)
(*                                                                         *)
(* A result set is a bag of rows: ORDER BY fixes only the order in which   *)
(* the rows are listed.                                                    *)
(***************************************************************************)

\* the characters of a stored ts_utc, in code point order
TsChars == <<" ", "+", "-", "0", "1", "2", "3", "4", "5", "6", "7", "8", "9", ":">>

CharCode(c) == CHOOSE i \in 1..Len(TsChars) : TsChars[i] = c

RECURSIVE TextLess(_, _)
\* a < b for two texts, as SQLite's BINARY collation and Python's str order
TextLess(a, b) ==
    IF b = <<>> THEN FALSE
    ELSE IF a = <<>> THEN TRUE
    ELSE IF Head(a) = Head(b) THEN TextLess(Tail(a), Tail(b))
    ELSE CharCode(Head(a)) < CharCode(Head(b))

MinText(S) == CHOOSE m \in S : \A t \in S : t = m \/ TextLess(m, t)

\* MAX(ts_utc) over a non-empty set of texts
MaxText(S) == CHOOSE m \in S : \A t \in S : t = m \/ TextLess(t, m)

RECURSIVE SumOver(_, _)
SumOver(S, tbl) ==
    IF S = {} THEN 0
    ELSE LET x == CHOOSE y \in S : TRUE IN tbl[x] + SumOver(S \ {x}, tbl)

\* the rows of tbl that satisfy Keep
SelectBag(tbl, Keep(_)) == [r \in {x \in BagToSet(tbl) : Keep(x)} |-> tbl[r]]

\* SELECT <columns>: every row of tbl cut down by Cut
ProjectBag(tbl, Cut(_)) ==
    [c \in {Cut(r) : r \in BagToSet(tbl)} |->
        SumOver({r \in BagToSet(tbl) : Cut(r) = c}, tbl)]

RegionClauseOrNull(region, r) ==
    IF region # NULL /\ region # <<>> /\ Strip(region) # <<>>
    THEN r.region = NULL \/ r.region = Strip(region)
    ELSE r.region = NULL \/ r.region = <<>>

\* _region_where_and_params(region), as the condition on a row r:
\* "region = ?" with region.strip(), or "(region IS NULL OR region='')"
RegionClause(region, r) ==
    IF region # NULL /\ region # <<>> /\ Strip(region) # <<>>
    THEN r.region # NULL /\ r.region = Strip(region)
    ELSE r.region = NULL \/ r.region = <<>>

SelectorAnyClient(client, region, ws, r) ==
    /\ RegionClause(region, r)
    /\ Upper(r.workspace) = ws

\* WHERE client=? AND {where_region} AND UPPER(workspace)=?
Selector(client, region, ws, r) ==
    /\ r.client = client
    /\ RegionClause(region, r)
    /\ Upper(r.workspace) = ws

\* SELECT client, region, workspace, parameter, ts_utc, value
FrameColumns(r) ==
    [client |-> r.client, region |-> r.region, workspace |-> r.workspace,
     parameter |-> r.parameter, ts_utc |-> r.ts_utc, value |-> r.value]

\* SELECT parameter, value, ts_utc, sheet_name, received_utc, message_id
LatestColumns(r) ==
    [parameter |-> r.parameter, value |-> r.value, ts_utc |-> r.ts_utc,
     sheet_name |-> r.sheet_name, received_utc |-> r.received_utc,
     message_id |-> r.message_id]

\* SELECT parameter, value, ts_utc, sheet_name, message_id
ByDateColumns(r) ==
    [parameter |-> r.parameter, value |-> r.value, ts_utc |-> r.ts_utc,
     sheet_name |-> r.sheet_name, message_id |-> r.message_id]

TIME_SLOTS == {<<"0", "1", ":", "3", "0", ":", "0", "0">>, <<"0", "9", ":", "3", "0", ":", "0", "0">>, <<"1", "7", ":", "3", "0", ":", "0", "0">>}

\* the index of the only ":" of s, 0 when s has none or several
OnlyColon(s) ==
    LET at == {i \in 1..Len(s) : s[i] = ":"}
    IN  IF Cardinality(at) = 1 THEN CHOOSE i \in at : TRUE ELSE 0

\* str.zfill(2)
ZFill2(s) ==
    IF Len(s) >= 2 THEN s
    ELSE IF Len(s) = 0 THEN <<"0", "0">>
    ELSE IF s[1] \in {"+", "-"} THEN <<s[1], "0">>
    ELSE <<"0", s[1]>>

\* _normalize_slot(s)
NormalizeSlot(s) ==
    IF s = NULL \/ s = <<>> THEN NULL
    ELSE
    LET raw0 == Strip(s)
        raw1 == IF Len(raw0) = 4 /\ AllDigits(raw0)
                THEN SubSeq(raw0, 1, 2) \o <<":">> \o SubSeq(raw0, 3, 4)
                ELSE raw0
        k == OnlyColon(raw1)
        raw2 == IF Len(raw1) <= 5 /\ k > 0
                THEN ZFill2(SubSeq(raw1, 1, k - 1)) \o <<":">>
                        \o ZFill2(SubSeq(raw1, k + 1, Len(raw1))) \o <<":", "0", "0">>
                ELSE raw1
    IN  IF raw2 \in TIME_SLOTS THEN raw2 ELSE NULL

\* datetime.strptime(date.strip(), "%Y-%m-%d").date(): the date as year,
\* month, day; NoMatch for the ValueError
ParseDate(date) ==
    LET txt == Strip(date)
        fits == {k \in {1, 2} \X {1, 2} :
                    /\ Len(txt) = 6 + k[1] + k[2]
                    /\ AllDigits(SubSeq(txt, 1, 4))
                    /\ txt[5] = "-"
                    /\ AllDigits(SubSeq(txt, 6, 5 + k[1]))
                    /\ txt[6 + k[1]] = "-"
                    /\ \/ AllDigits(SubSeq(txt, 7 + k[1], Len(txt)))
                       \/ k[2] = 2 /\ txt[7 + k[1]] = " " /\ IsDigit(txt[8 + k[1]])}
    IN  IF fits = {} THEN NoMatch
        ELSE LET k == CHOOSE x \in fits : TRUE
                 y == NumVal(SubSeq(txt, 1, 4))
                 mm == SubSeq(txt, 6, 5 + k[1])
                 dd == LStrip(SubSeq(txt, 7 + k[1], Len(txt)))
             IN  IF y >= 1 THEN ToDatetime(y, mm, dd, <<"0">>, <<"0">>) ELSE NoMatch

\* isoformat() as it is, with the "T" between date and time
IsoForDbKeepsT(d, slot) ==
    Pad4(d.year) \o <<"-">> \o Pad2(d.month) \o <<"-">> \o Pad2(d.day) \o <<"T">>
        \o slot \o <<"+", "0", "0", ":", "0", "0">>

\* _iso_for_db(datetime(d.year, d.month, d.day, hh, mm, ss, tzinfo=utc))
IsoForDb(d, slot) ==
    Pad4(d.year) \o <<"-">> \o Pad2(d.month) \o <<"-">> \o Pad2(d.day) \o <<" ">>
        \o slot \o <<"+", "0", "0", ":", "0", "0">>

QClients == {ClientX, ClientY}

\* region omitted, "", " ", "E", " E ", "A"
QRegions == {NULL, <<>>, <<" ">>, <<"E">>, <<" ", "E", " ">>, <<"A">>}

QWorkspaces == {<<"L">>, <<"l", " ">>, <<"F">>}

QModes == {"aligned", "per-parameter", "other"}

\* 2024-08-21, 2024-8-21, 2024-02-30, 2024-02-29, 2023-08-21, 21-08-2024
QDates ==
    {<<"2", "0", "2", "4", "-", "0", "8", "-", "2", "1">>,
     <<"2", "0", "2", "4", "-", "8", "-", "2", "1">>,
     <<"2", "0", "2", "4", "-", "0", "2", "-", "3", "0">>,
     <<"2", "0", "2", "4", "-", "0", "2", "-", "2", "9">>,
     <<"2", "0", "2", "3", "-", "0", "8", "-", "2", "1">>,
     <<"2", "1", "-", "0", "8", "-", "2", "0", "2", "4">>}

\* 930, 9:30, 09:30, 09:30:00, 0930, 10:15, 1:30, 0130, 130, 01:30:00, 17:30, 1730, 17:30:00
QSlots ==
    {<<"9", "3", "0">>,
     <<"9", ":", "3", "0">>,
     <<"0", "9", ":", "3", "0">>,
     <<"0", "9", ":", "3", "0", ":", "0", "0">>,
     <<"0", "9", "3", "0">>,
     <<"1", "0", ":", "1", "5">>,
     <<"1", ":", "3", "0">>,
     <<"0", "1", "3", "0">>,
     <<"1", "3", "0">>,
     <<"0", "1", ":", "3", "0", ":", "0", "0">>,
     <<"1", "7", ":", "3", "0">>,
     <<"1", "7", "3", "0">>,
     <<"1", "7", ":", "3", "0", ":", "0", "0">>}

QSheets == {NULL, <<"l">>}

\* the calls whose ingestions fill the store that is queried
QueryCalls ==
    { <<(<<ClientX, (<<>>)>>), "m1">>,
      <<(<<ClientX, (<<"E">>)>>), "m1">>,
      <<(<<ClientX, (<<"E">>)>>), "m2">>,
      <<(<<ClientX, (<<"A">>)>>), "m1">>,
      <<(<<ClientY, (<<"E">>)>>), "m1">> }

RECURSIVE StoresAfter(_)
\* the tables that n ingestions, one after the other in 2024, leave
StoresAfter(n) ==
    IF n = 0 THEN {EmptyBag}
    ELSE {ApplyRows(tbl, Batches[c, 2024], 1) : tbl \in StoresAfter(n - 1), c \in QueryCalls}

\* the requests: /api/stats (its frame), /api/display/latest and
\* /api/display/by-date
Queries ==
    {[NoQuery EXCEPT !.op = "read_df", !.client = c, !.region = r, !.workspace = w] :
        c \in QClients, r \in QRegions, w \in QWorkspaces}
    \cup {[NoQuery EXCEPT !.op = "latest", !.client = c, !.region = r, !.workspace = w,
                          !.mode = m] :
        c \in QClients, r \in QRegions, w \in QWorkspaces, m \in QModes}
    \cup {[NoQuery EXCEPT !.op = "latest", !.client = c, !.workspace = w, !.mode = "aligned"] :
        c \in {ClientX, <<" ">>}, w \in {<<"L">>, <<" ">>}}
    \cup {[op |-> "by_date", client |-> c, region |-> r, workspace |-> w, mode |-> "",
           date |-> d, time_slot |-> t, sheet |-> sh] :
        c \in QClients \cup {<<" ">>}, r \in QRegions, w \in {<<"L">>, <<"l", " ">>, <<" ">>},
        d \in {<<"2", "0", "2", "4", "-", "0", "8", "-", "2", "1">>}, t \in {<<"0", "9", "3", "0">>, <<"9", "3", "0">>}, sh \in QSheets}
    \cup {[op |-> "by_date", client |-> ClientX, region |-> r, workspace |-> <<"L">>,
           mode |-> "", date |-> d, time_slot |-> t, sheet |-> NULL] :
        r \in {NULL, <<"E">>}, d \in QDates, t \in QSlots}

InitQuery ==
    /\ InitStore!2
    /\ InitStore!3
    /\ InitStore!4
    /\ InitStore!5
    /\ InitStore!6
    /\ InitStore!7
    /\ InitStore!9
    /\ ingests \in 0..MaxIngests
    /\ db \in StoresAfter(ingests)
    /\ InitParseIdle
    /\ InitFetchIdle
    /\ query \in Queries
    /\ matched = EmptyBag
    /\ response = NoResponse
    /\ stats = NoStats

\* _read_df(client, region, workspace), the frame compute_stats works on
ReadDf(client, region, workspace) ==
    LET ws == Upper(Strip(workspace))
        Keep(r) == Selector(client, region, ws, r)
        rows == SelectBag(db, Keep)
    IN  /\ query.op = "read_df"
        /\ response = NoResponse
        /\ matched' = rows
        /\ response' = [NoResponse EXCEPT !.status = "ok", !.rows = ProjectBag(rows, FrameColumns)]
        /\ UNCHANGED <<storeVars, parseVars, query, stats, fetchVars>>

\* api_display_latest where the join takes MAX(ts_utc) of a parameter over
\* the whole table
ApiDisplayLatestAnySelector(client, workspace, region, mode) ==
    LET ws == Upper(Strip(workspace))
        Keep(r) == Selector(client, region, ws, r)
        sel == SelectBag(db, Keep)
        stamps == {r.ts_utc : r \in BagToSet(sel)}
        max_ts == MaxText(stamps)
        AtMax(r) == Keep(r) /\ r.ts_utc = max_ts
        Newest(r) == Keep(r) /\ r.ts_utc = MaxText({x.ts_utc : x \in {y \in BagToSet(db)  :
                                                                   y.parameter = r.parameter}})
        rows == IF mode = "aligned" THEN SelectBag(db, AtMax) ELSE SelectBag(db, Newest)
    IN  /\ query.op = "latest"
        /\ response = NoResponse
        /\ IF mode \notin {"aligned", "per-parameter"}
           THEN /\ matched' = EmptyBag
                /\ response' = [NoResponse EXCEPT !.status = "bad_mode", !.reason = "mode"]
           ELSE IF stamps = {}
           THEN /\ matched' = EmptyBag
                /\ response' = [NoResponse EXCEPT !.status = "ok"]
           ELSE /\ matched' = rows
                /\ response' = [NoResponse EXCEPT !.status = "ok", !.ts = max_ts,
                                                   !.rows = ProjectBag(rows, LatestColumns)]
        /\ UNCHANGED <<storeVars, parseVars, query, stats, fetchVars>>

\* api_display_latest(client, workspace, region, mode)
ApiDisplayLatest(client, workspace, region, mode) ==
    LET ws == Upper(Strip(workspace))
        Keep(r) == Selector(client, region, ws, r)
        sel == SelectBag(db, Keep)
        stamps == {r.ts_utc : r \in BagToSet(sel)}
        max_ts == MaxText(stamps)
        AtMax(r) == Keep(r) /\ r.ts_utc = max_ts
        \* the join with (parameter, MAX(ts_utc)) of the selector
        Newest(r) == Keep(r) /\ r.ts_utc = MaxText({x.ts_utc : x \in {y \in BagToSet(sel) :
                                                                   y.parameter = r.parameter}})
        rows == IF mode = "aligned" THEN SelectBag(db, AtMax) ELSE SelectBag(db, Newest)
    IN  /\ query.op = "latest"
        /\ response = NoResponse
        /\ IF mode \notin {"aligned", "per-parameter"}
           THEN /\ matched' = EmptyBag
                /\ response' = [NoResponse EXCEPT !.status = "bad_mode", !.reason = "mode"]
           ELSE IF stamps = {}
           THEN /\ matched' = EmptyBag
                /\ response' = [NoResponse EXCEPT !.status = "ok"]
           ELSE /\ matched' = rows
                /\ response' = [NoResponse EXCEPT !.status = "ok", !.ts = max_ts,
                                                   !.rows = ProjectBag(rows, LatestColumns)]
        /\ UNCHANGED <<storeVars, parseVars, query, stats, fetchVars>>

\* display_by_date(client, workspace, region, date, time_slot, sheet)
DisplayByDate(client0, workspace, region, date, time_slot, sheet) ==
    LET client == Strip(client0)
        workspace_up == Upper(Strip(workspace))
        sheet_raw == IF sheet = NULL \/ sheet = <<>> THEN NULL ELSE Strip(sheet)
        d == ParseDate(date)
        slot == NormalizeSlot(time_slot)
        ts_db == IsoForDb(d, slot)
        Keep(r) ==
            /\ Selector(client, region, workspace_up, r)
            /\ r.ts_utc = ts_db
            /\ (sheet_raw # NULL /\ sheet_raw # <<>>) => Upper(r.sheet_name) = Upper(sheet_raw)
        rows == SelectBag(db, Keep)
    IN  /\ query.op = "by_date"
        /\ response = NoResponse
        /\ IF client = <<>> \/ workspace_up = <<>>
           THEN /\ matched' = EmptyBag
                /\ response' = [NoResponse EXCEPT !.status = "bad_request",
                                                   !.reason = "client and workspace"]
           ELSE IF d = NoMatch
           THEN /\ matched' = EmptyBag
                /\ response' = [NoResponse EXCEPT !.status = "bad_request", !.reason = "date"]
           ELSE IF slot = NULL
           THEN /\ matched' = EmptyBag
                /\ response' = [NoResponse EXCEPT !.status = "bad_request",
                                                   !.reason = "time_slot",
                                                   !.allowed = TIME_SLOTS]
           ELSE IF rows = EmptyBag
           THEN /\ matched' = EmptyBag
                /\ response' = [NoResponse EXCEPT !.status = "not_found", !.ts = ts_db,
                                                   !.reason = "no data"]
           ELSE /\ matched' = rows
                /\ response' = [NoResponse EXCEPT !.status = "ok", !.ts = ts_db,
                                                   !.rows = ProjectBag(rows, ByDateColumns)]
        /\ UNCHANGED <<storeVars, parseVars, query, stats, fetchVars>>


(***************************************************************************)
(* Statistics: stats.py, compute_stats.  A value is an integer; a mean is   *)
(* given in hundredths.  With the sheets drawn below no mean falls         *)
(* half-way between two hundredths.                                        *)
(***************************************************************************)

\* round(a / b, 2) in hundredths for a / b given in hundredths, a >= 0 and
\* b > 0: to the nearest, a tie to the even neighbour
RoundHalfEven(a, b) ==
    LET q == a \div b
        r == a % b
    IN  IF 2 * r < b THEN q
        ELSE IF 2 * r > b THEN q + 1
        ELSE IF q % 2 = 0 THEN q ELSE q + 1

RECURSIVE SeqLess(_, _)
\* a < b for two tuples of integers of one length
SeqLess(a, b) ==
    IF a = <<>> THEN FALSE
    ELSE IF Head(a) = Head(b) THEN SeqLess(Tail(a), Tail(b))
    ELSE Head(a) < Head(b)

\* pd.to_datetime(ts_utc, utc=True, errors="coerce") for the texts _iso_utc
\* writes, "YYYY-MM-DD HH:MM:SS+00:00", and those ParseIsoText reads; any
\* other text is NaT
ToDatetimeUtc(s) ==
    IF /\ Len(s) = 25
       /\ AllDigits(SubSeq(s, 1, 4)) /\ s[5] = "-"
       /\ AllDigits(SubSeq(s, 6, 7)) /\ s[8] = "-"
       /\ AllDigits(SubSeq(s, 9, 10)) /\ s[11] = " "
       /\ AllDigits(SubSeq(s, 12, 13)) /\ s[14] = ":"
       /\ AllDigits(SubSeq(s, 15, 16)) /\ s[17] = ":"
       /\ AllDigits(SubSeq(s, 18, 19))
       /\ SubSeq(s, 20, 25) = <<"+", "0", "0", ":", "0", "0">>
    THEN LET t == ToDatetime(NumVal(SubSeq(s, 1, 4)), SubSeq(s, 6, 7), SubSeq(s, 9, 10),
                             SubSeq(s, 12, 13), SubSeq(s, 15, 16))
             sec == NumVal(SubSeq(s, 18, 19))
         IN  IF t = NoMatch \/ sec > 59 THEN NoMatch ELSE [t EXCEPT !.second = sec]
    ELSE ParseIsoText(s)

\* a timestamp as a tuple that orders as the timestamps do
Stamp(t) == <<t.year, t.month, t.day, t.hour, t.minute, t.second>>

\* ts_utc.dt.date of a timestamp given as such a tuple
DateOf(ts_utc) == SubSeq(ts_utc, 1, 3)

\* str(d) of a date
DateText(d) == Pad4(d[1]) \o <<"-">> \o Pad2(d[2]) \o <<"-">> \o Pad2(d[3])

\* Timestamp.isoformat() of a UTC timestamp: "YYYY-MM-DDTHH:MM:SS+00:00"
IsoFormat(t) ==
    Pad4(t[1]) \o <<"-">> \o Pad2(t[2]) \o <<"-">> \o Pad2(t[3]) \o <<"T">>
        \o Pad2(t[4]) \o <<":">> \o Pad2(t[5]) \o <<":">> \o Pad2(t[6])
        \o <<"+", "0", "0", ":", "0", "0">>

RECURSIVE SortedTuples(_)
\* sorted(S) for a set of tuples of integers
SortedTuples(S) ==
    IF S = {} THEN <<>>
    ELSE LET m == CHOOSE x \in S : \A y \in S : y = x \/ SeqLess(x, y)
         IN  <<m>> \o SortedTuples(S \ {m})

\* n = max(1, min(7, int(n)))
ClampDays(n) == IF n < 1 THEN 1 ELSE IF n > 7 THEN 7 ELSE n

FirstNDays(distinct_days, n) ==
    IF Len(distinct_days) >= n THEN SubSeq(distinct_days, 1, n) ELSE distinct_days

\* distinct_days[-n:] if len(distinct_days) >= n else distinct_days
LastNDays(distinct_days, n) ==
    IF Len(distinct_days) >= n
    THEN SubSeq(distinct_days, Len(distinct_days) - n + 1, Len(distinct_days))
    ELSE distinct_days

\* the sum of the values and the number of the rows of a frame
ValueSum(g) == SumOver(BagToSet(g), [r \in BagToSet(g) |-> r.value * g[r]])

IdxLast(g) ==
    CHOOSE r \in BagToSet(g) :
        \A x \in BagToSet(g) : x.ts_utc = r.ts_utc \/ SeqLess(x.ts_utc, r.ts_utc)

\* g.sort_values("ts_utc") and g["value"].idxmax(): the first row, in the
\* order of the timestamps, among those of the largest value
IdxMax(g) ==
    CHOOSE r \in BagToSet(g) :
        /\ \A x \in BagToSet(g) : x.value <= r.value
        /\ \A x \in BagToSet(g) :
              x.value = r.value => x = r \/ SeqLess(r.ts_utc, x.ts_utc)

\* g["value"].idxmin() likewise
IdxMin(g) ==
    CHOOSE r \in BagToSet(g) :
        /\ \A x \in BagToSet(g) : x.value >= r.value
        /\ \A x \in BagToSet(g) :
              x.value = r.value => x = r \/ SeqLess(r.ts_utc, x.ts_utc)

\* _daily_stats_for_param(df_param)["daily"]: one entry per date, in the
\* order of the dates
DailyStatsForParam(df_param) ==
    LET days == SortedTuples({DateOf(r.ts_utc) : r \in BagToSet(df_param)})
        Entry(d) ==
            LET OnDay(r) == DateOf(r.ts_utc) = d
                g == SelectBag(df_param, OnDay)
            IN  [date |-> DateText(d),
                 avg |-> RoundHalfEven(100 * ValueSum(g), BagCardinality(g)),
                 max |-> [time |-> IsoFormat(IdxMax(g).ts_utc), value |-> IdxMax(g).value],
                 min |-> [time |-> IsoFormat(IdxMin(g).ts_utc), value |-> IdxMin(g).value]]
    IN  Flatten([k \in 1..Len(days) |-> <<Entry(days[k])>>])

\* the {} of _rolling_days_summary
NoSummary ==
    [avg |-> 0, max_day |-> [date |-> NULL, value |-> 0], min_day |-> [date |-> NULL, value |-> 0]]

\* _rolling_days_summary(daily_rows): max() and min() return the first of
\* the rows that share the extreme
RollingDaysSummary(daily_rows) ==
    IF daily_rows = <<>> THEN NoSummary
    ELSE
    LET idx == 1..Len(daily_rows)
        max_i == CHOOSE i \in idx :
                    /\ \A j \in idx : daily_rows[j].max.value <= daily_rows[i].max.value
                    /\ \A j \in 1..(i - 1) : daily_rows[j].max.value < daily_rows[i].max.value
        min_i == CHOOSE i \in idx :
                    /\ \A j \in idx : daily_rows[j].min.value >= daily_rows[i].min.value
                    /\ \A j \in 1..(i - 1) : daily_rows[j].min.value > daily_rows[i].min.value
    IN  [avg |-> RoundHalfEven(SumOver(idx, [i \in idx |-> daily_rows[i].avg]), Len(daily_rows)),
         max_day |-> [date |-> daily_rows[max_i].date, value |-> daily_rows[max_i].max.value],
         min_day |-> [date |-> daily_rows[min_i].date, value |-> daily_rows[min_i].min.value]]

\* df["ts_utc"].dt.to_period("M") of a timestamp given as a tuple
MonthOf(ts_utc) == SubSeq(ts_utc, 1, 2)

\* str(m) of a monthly period: "YYYY-MM"
MonthText(m) == Pad4(m[1]) \o <<"-">> \o Pad2(m[2])

ClampMonthsAsDays(n) == IF n < 1 THEN 1 ELSE IF n > 7 THEN 7 ELSE n

\* n = max(1, min(6, int(n)))
ClampMonths(n) == IF n < 1 THEN 1 ELSE IF n > 6 THEN 6 ELSE n

\* distinct[-n:] if len(distinct) >= n else distinct
LastNMonths(distinct, n) ==
    IF Len(distinct) >= n THEN SubSeq(distinct, Len(distinct) - n + 1, Len(distinct))
    ELSE distinct

\* _monthly_stats_for_param(df_param)["months"]: one entry per month, in the
\* order of the months
MonthlyStatsForParam(df_param) ==
    LET months == SortedTuples({MonthOf(r.ts_utc) : r \in BagToSet(df_param)})
        Entry(m) ==
            LET InMonth(r) == MonthOf(r.ts_utc) = m
                g == SelectBag(df_param, InMonth)
            IN  [month |-> MonthText(m),
                 avg |-> RoundHalfEven(100 * ValueSum(g), BagCardinality(g))]
    IN  Flatten([k \in 1..Len(months) |-> <<Entry(months[k])>>])

\* the {} of _rolling_months_summary
NoMonthsSummary ==
    [overall_avg |-> 0, max_month |-> [month |-> NULL, avg |-> 0],
     min_month |-> [month |-> NULL, avg |-> 0]]

\* _rolling_months_summary(month_rows): max() and min() return the first of
\* the rows that share the extreme
RollingMonthsSummary(month_rows) ==
    IF month_rows = <<>> THEN NoMonthsSummary
    ELSE
    LET idx == 1..Len(month_rows)
        max_i == CHOOSE i \in idx :
                    /\ \A j \in idx : month_rows[j].avg <= month_rows[i].avg
                    /\ \A j \in 1..(i - 1) : month_rows[j].avg < month_rows[i].avg
        min_i == CHOOSE i \in idx :
                    /\ \A j \in idx : month_rows[j].avg >= month_rows[i].avg
                    /\ \A j \in 1..(i - 1) : month_rows[j].avg > month_rows[i].avg
    IN  [overall_avg |->
             RoundHalfEven(SumOver(idx, [i \in idx |-> month_rows[i].avg]), Len(month_rows)),
         max_month |-> month_rows[max_i],
         min_month |-> month_rows[min_i]]

\* the timestamp headers of five instants in three months: "06/30-0930",
\* "07/01-0130", "07/31-1730", "08/01-0130", "08/21-0930"
MonthHeaders ==
    << <<"0", "6", "/", "3", "0", "-", "0", "9", "3", "0">>,
       <<"0", "7", "/", "0", "1", "-", "0", "1", "3", "0">>,
       <<"0", "7", "/", "3", "1", "-", "1", "7", "3", "0">>,
       <<"0", "8", "/", "0", "1", "-", "0", "1", "3", "0">>,
       H0930 >>

\* the timestamp headers of five instants on four days: "08/18-0930",
\* "08/19-0930", "08/20-0130", "08/20-1730", "08/21-0930"
DayHeaders ==
    << <<"0", "8", "/", "1", "8", "-", "0", "9", "3", "0">>,
       <<"0", "8", "/", "1", "9", "-", "0", "9", "3", "0">>,
       <<"0", "8", "/", "2", "0", "-", "0", "1", "3", "0">>,
       <<"0", "8", "/", "2", "0", "-", "1", "7", "3", "0">>,
       H0930 >>

StatsCells == {NaN, Num(3), Num(9)}

\* the rows of parameter Q: three days that end before the last day, no
\* value, one value on the last day
StatsRowsQ ==
    { <<ParamQ, Num(3), Num(5), Num(9), NaN, NaN>>,
      <<ParamQ, NaN, NaN, NaN, NaN, NaN>>,
      <<ParamQ, NaN, NaN, NaN, NaN, Num(4)>> }

\* the sheets "L" whose ingestion fills the store the statistics are taken of
StatsSheets ==
    {[name |-> <<"L">>,
      df |-> [columns |-> <<LabelHeader>> \o DayHeaders,
              rows |-> << <<ParamP, a, b, c, d, e>>, q >>]] :
        a \in StatsCells, b \in StatsCells, c \in StatsCells, d \in StatsCells,
        e \in StatsCells, q \in StatsRowsQ}

\* the rows of parameter Q over the months: June and July only, no value,
\* August only
MonthRowsQ ==
    { <<ParamQ, Num(3), Num(5), NaN, NaN, NaN>>,
      <<ParamQ, NaN, NaN, NaN, NaN, NaN>>,
      <<ParamQ, NaN, NaN, NaN, NaN, Num(4)>> }

\* the sheets "L" whose ingestion fills the store the monthly statistics are
\* taken of
MonthSheets ==
    {[name |-> <<"L">>,
      df |-> [columns |-> <<LabelHeader>> \o MonthHeaders,
              rows |-> << <<ParamP, a, b, c, d, e>>, q >>]] :
        a \in StatsCells, b \in StatsCells, c \in StatsCells, d \in StatsCells,
        e \in StatsCells, q \in MonthRowsQ}

\* the number of days asked for
StatsN == 0..8

\* the number of months asked for
MonthsN == {0, 1, 2, 3, 6, 7}

MonthQueries ==
    {[op |-> "stats", client |-> ClientX, region |-> NULL, workspace |-> <<"l">>,
      basis |-> "months", n |-> n] : n \in MonthsN}
    \cup {[op |-> "stats", client |-> ClientY, region |-> NULL, workspace |-> <<"l">>,
            basis |-> "months", n |-> 2]}

StatsQueries ==
    {[op |-> "stats", client |-> c, region |-> NULL, workspace |-> <<"l">>,
      basis |-> "days", n |-> n] : c \in QClients, n \in StatsN}

\* /api/display/latest and /api/display/by-date asked of the stores of the
\* daily statistics: a client and a workspace with and without rows, a slot
\* and a date with and without rows
SnapshotQueries ==
    {[NoQuery EXCEPT !.op = "latest", !.client = c, !.workspace = w, !.mode = m] :
        c \in QClients, w \in {<<"l">>, <<"F">>}, m \in {"aligned", "per-parameter"}}
    \cup {[op |-> "by_date", client |-> c, region |-> NULL, workspace |-> <<"l">>,
            mode |-> "", date |-> d, time_slot |-> t, sheet |-> NULL] :
        c \in QClients,
        d \in {<<"2", "0", "2", "4", "-", "0", "8", "-", "2", "0">>,
               <<"2", "0", "2", "4", "-", "0", "8", "-", "1", "7">>},
        t \in {<<"0", "1", "3", "0">>, <<"0", "9", ":", "3", "0">>}}

\* the batch of another selector of the same client and workspace: P and Q
\* of region "E" at 2024-08-21 09:30
OtherRegionBatch ==
    IngestBatch(<<SheetPQ(<<"L">>, 10, 30)>>, ClientX, <<"E">>, "m1", Received2024, 2024)

\* the batch of a later workbook whose sheet is named "l": P at
\* 2024-08-20 01:30 and at 2024-08-21 09:30, workspace "L"
OtherSheetBatch ==
    IngestBatch(<<[name |-> <<"l">>,
                   df |-> [columns |-> <<LabelHeader, DayHeaders[3], DayHeaders[5]>>,
                           rows |-> << <<ParamP, Num(11), Num(12)>> >>]]>>,
                ClientX, <<>>, "m5", Received2024, 2024)

InitStats ==
    /\ InitStore!2
    /\ InitStore!3
    /\ InitStore!4
    /\ InitStore!5
    /\ InitStore!6
    /\ InitStore!7
    /\ InitStore!9
    /\ ingests = 1
    /\ \E sh \in StatsSheets \cup MonthSheets, other \in {"none", "region", "sheet"} :
          /\ db = ApplyRows(ApplyRows(EmptyBag, IngestBatch(<<sh>>, ClientX, <<>>, "m4",
                                                            Received2024, 2024), 1),
                            CASE other = "region" -> OtherRegionBatch
                              [] other = "sheet" -> OtherSheetBatch
                              [] OTHER -> <<>>, 1)
          /\ query \in (IF sh \in StatsSheets THEN StatsQueries \cup SnapshotQueries
                        ELSE MonthQueries)
          /\ other = "region" => query.op = "latest"
          /\ other = "sheet" => query.op \in {"latest", "by_date"}
    /\ InitParseIdle
    /\ InitFetchIdle
    /\ matched = EmptyBag
    /\ response = NoResponse
    /\ stats = NoStats

\* df = _read_df(client, region, workspace), the first line of
\* compute_stats: the selected rows, ts_utc turned into timestamps and the
\* rows without one dropped
StatsReadDf(client, region, workspace) ==
    LET ws == Upper(Strip(workspace))
        Keep(r) == Selector(client, region, ws, r) /\ ToDatetimeUtc(r.ts_utc) # NoMatch
        Cut(r) == [FrameColumns(r) EXCEPT !.ts_utc = Stamp(ToDatetimeUtc(r.ts_utc))]
    IN  /\ query.op = "stats"
        /\ response = NoResponse
        /\ matched' = SelectBag(db, Keep)
        /\ response' = [NoResponse EXCEPT !.status = "frame",
                                           !.rows = ProjectBag(SelectBag(db, Keep), Cut)]
        /\ UNCHANGED <<storeVars, parseVars, query, stats, fetchVars>>

\* the rest of compute_stats(client, region, workspace, basis, n): the
\* months branch, and the days branch for any other basis
ComputeStats(basis, n) ==
    LET df == response.rows
        distinct_days == SortedTuples({DateOf(r.ts_utc) : r \in BagToSet(df)})
        last_n_days == LastNDays(distinct_days, ClampDays(n))
        InWindow(r) == \E k \in 1..Len(last_n_days) : last_n_days[k] = DateOf(r.ts_utc)
        df_n == SelectBag(df, InWindow)
        stamps == SortedTuples({r.ts_utc : r \in BagToSet(df_n)})
        ByParameter(p) ==
            LET OfParameter(r) == InWindow(r) /\ r.parameter = p
                daily == DailyStatsForParam(SelectBag(df, OfParameter))
            IN  [daily |-> daily, rolling |-> RollingDaysSummary(daily)]
        distinct == SortedTuples({MonthOf(r.ts_utc) : r \in BagToSet(df)})
        last_n == LastNMonths(distinct, ClampMonths(n))
        InMonths(r) == \E k \in 1..Len(last_n) : last_n[k] = MonthOf(r.ts_utc)
        df_m == SelectBag(df, InMonths)
        stamps_m == SortedTuples({r.ts_utc : r \in BagToSet(df_m)})
        ByParameterMonths(p) ==
            LET OfParameter(r) == InMonths(r) /\ r.parameter = p
                mon == MonthlyStatsForParam(SelectBag(df, OfParameter))
            IN  [months |-> mon, rolling |-> RollingMonthsSummary(mon)]
    IN  /\ query.op = "stats"
        /\ response.status = "frame"
        /\ response' = [NoResponse EXCEPT !.status = "ok"]
        /\ IF df = EmptyBag
           THEN stats' = [NoStats EXCEPT !.ok = TRUE, !.note = "No data for selected range"]
           ELSE IF basis = "months"
           THEN IF df_m = EmptyBag
                THEN stats' = [NoStats EXCEPT !.ok = TRUE,
                                               !.note = "No data for selected range"]
                ELSE stats' =
                       [ok |-> TRUE, note |-> "", basis |-> basis, n |-> n,
                        days |-> ClampMonths(n),
                        range |-> [from |-> IsoFormat(stamps_m[1]),
                                   to |-> IsoFormat(stamps_m[Len(stamps_m)])],
                        by_parameter |->
                            [p \in {r.parameter : r \in BagToSet(df_m)} |->
                                ByParameterMonths(p)]]
           ELSE IF df_n = EmptyBag
           THEN stats' = [NoStats EXCEPT !.ok = TRUE, !.note = "No data for selected range"]
           ELSE stats' =
                  [ok |-> TRUE, note |-> "", basis |-> basis, n |-> n, days |-> ClampDays(n),
                   range |-> [from |-> IsoFormat(stamps[1]), to |-> IsoFormat(stamps[Len(stamps)])],
                   by_parameter |->
                       [p \in {r.parameter : r \in BagToSet(df_n)} |-> ByParameter(p)]]
        /\ UNCHANGED <<storeVars, parseVars, query, matched, fetchVars>>

NextQuery ==
    \/ ReadDf(query.client, query.region, query.workspace)
    \/ ApiDisplayLatest(query.client, query.workspace, query.region, query.mode)
    \/ DisplayByDate(query.client, query.workspace, query.region,
                     query.date, query.time_slot, query.sheet)

SpecQuery == InitQuery /\ [][NextQuery]_vars

NextStats ==
    \/ StatsReadDf(query.client, query.region, query.workspace)
    \/ ComputeStats(query.basis, query.n)
    \/ ApiDisplayLatest(query.client, query.workspace, query.region, query.mode)
    \/ DisplayByDate(query.client, query.workspace, query.region,
                     query.date, query.time_slot, query.sheet)

SpecStats == InitStats /\ [][NextStats]_vars

(***************************************************************************)
(* ingest_excel and append_timeseries on their own: a workbook and a store *)
(* are drawn, then one call runs from its first line to its return, with   *)
(* no other writer and no storage failure                                  *)
(***************************************************************************)

\* label Q alone under one timestamp header
SheetOnlyQ(name, v) ==
    [name |-> name,
     df |-> [columns |-> <<LabelHeader, H0930>>, rows |-> << <<ParamQ, Num(v)>> >>]]

\* a sheet pandas reads as an empty frame
SheetEmpty(name) == [name |-> name, df |-> EmptyFrame]

WorkbookSheets ==
    {SheetNote(<<"F">>), SheetEmpty(<<"B">>), SheetPQ(<<"L">>, 10, 30),
     SheetOnlyQ(<<"M">>, 33), SheetTwice(<<"L">>, 20, 31, 21)}

\* workbooks of one to three sheets
Workbooks ==
    {<<a>> : a \in WorkbookSheets}
    \cup {<<a, b>> : a \in WorkbookSheets, b \in WorkbookSheets}
    \cup {<<a, b, c>> : a \in WorkbookSheets, b \in WorkbookSheets, c \in WorkbookSheets}

IngestRegions == {<<>>, <<"E">>}

InitIngest ==
    /\ InitQueryIdle
    /\ InitFetchIdle
    /\ db \in StoresAfter(0) \cup StoresAfter(1)
    /\ lock = "none"
    /\ txn = EmptyBag
    /\ pc = [w \in Writers |-> "idle"]
    /\ job = [w \in Writers |-> NoJob]
    /\ outcome = [w \in Writers |-> NoOutcome]
    /\ now_year = 2024
    /\ ingests = 0
    /\ hist = NoHist
    /\ col = <<>>
    /\ year_hint = 0
    /\ parsed = NoMatch
    /\ iso = NULL
    /\ points = <<>>
    /\ phase = "input"
    /\ frame = EmptyFrame
    /\ workbook \in Workbooks

AppendTimeseriesCountsStore(tbl, rows) ==
    IF rows = <<>> THEN [db |-> tbl, rows_written |-> 0, unique_parameters |-> 0]
    ELSE [db |-> ApplyRows(tbl, rows, 1), rows_written |-> Len(rows),
          unique_parameters |->
              Cardinality({r.parameter : r \in BagToSet(ApplyRows(tbl, rows, 1))})]

\* append_timeseries(df_long), the whole call: the table it leaves and the
\* pair it returns
AppendTimeseries(tbl, rows) ==
    IF rows = <<>> THEN [db |-> tbl, rows_written |-> 0, unique_parameters |-> 0]
    ELSE [db |-> ApplyRows(tbl, rows, 1), rows_written |-> Len(rows),
          unique_parameters |-> NUnique(rows)]

\* ingest_excel(path, client="x", region=, message_id="m0",
\* received_iso="2024-08-22T10:00:00Z") up to the end of its loop over the
\* sheets: all_dfs, concatenated
IngestExcelSheets(region) ==
    /\ ingests = 0
    /\ ingests' = 1
    /\ pc' = [pc EXCEPT !["api"] = "ready"]
    /\ job' = [job EXCEPT !["api"] =
                 [call |-> [client |-> ClientX, region |-> region, mail |-> "m0",
                            year |-> InferYear(Received2024, now_year)],
                  rows |-> IngestBatch(workbook, ClientX, region, "m0", Received2024, now_year),
                  next |-> 1]]
    /\ UNCHANGED <<db, lock, txn, outcome, now_year, hist>>
    /\ UNCHANGED <<parseVars, queryVars, fetchVars>>

\* the rest of ingest_excel: (0, 0) when all_dfs is empty, else the call of
\* append_timeseries and its return
IngestExcelReturn ==
    /\ pc["api"] = "ready"
    /\ pc' = [pc EXCEPT !["api"] = "idle"]
    /\ hist' = [before |-> db, rows |-> job["api"].rows, call |-> job["api"].call,
                prev |-> NoCall]
    /\ job' = [job EXCEPT !["api"] = NoJob]
    /\ IF job["api"].rows = <<>>
       THEN /\ outcome' = [outcome EXCEPT !["api"] = Returned(0, 0)]
            /\ db' = db
       ELSE /\ outcome' = [outcome EXCEPT !["api"] =
                             Returned(AppendTimeseries(db, job["api"].rows).rows_written,
                                      AppendTimeseries(db, job["api"].rows).unique_parameters)]
            /\ db' = AppendTimeseries(db, job["api"].rows).db
    /\ UNCHANGED <<lock, txn, now_year, ingests>>
    /\ UNCHANGED <<parseVars, queryVars, fetchVars>>

\* _normalize_sheet of the workbook's first sheet: a frame, which may be
\* empty, for a call of append_timeseries
NormalizeFirstSheet(region) ==
    /\ ingests = 0
    /\ ingests' = 1
    /\ pc' = [pc EXCEPT !["auto"] = "ready"]
    /\ job' = [job EXCEPT !["auto"] =
                 [call |-> [client |-> ClientX, region |-> region, mail |-> "append",
                            year |-> InferYear(Received2024, now_year)],
                  rows |-> NormalizeSheet(workbook[1].df, ClientX, region,
                                          Upper(Strip(workbook[1].name)), "m0",
                                          Received2024, workbook[1].name, now_year),
                  next |-> 1]]
    /\ UNCHANGED <<db, lock, txn, outcome, now_year, hist>>
    /\ UNCHANGED <<parseVars, queryVars, fetchVars>>

\* append_timeseries(df_long) of that frame, the whole call
AppendTimeseriesCall ==
    /\ pc["auto"] = "ready"
    /\ pc' = [pc EXCEPT !["auto"] = "idle"]
    /\ hist' = [before |-> db, rows |-> job["auto"].rows, call |-> job["auto"].call,
                prev |-> NoCall]
    /\ job' = [job EXCEPT !["auto"] = NoJob]
    /\ outcome' = [outcome EXCEPT !["auto"] =
                     Returned(AppendTimeseries(db, job["auto"].rows).rows_written,
                              AppendTimeseries(db, job["auto"].rows).unique_parameters)]
    /\ db' = AppendTimeseries(db, job["auto"].rows).db
    /\ UNCHANGED <<lock, txn, now_year, ingests>>
    /\ UNCHANGED <<parseVars, queryVars, fetchVars>>

NextIngest ==
    \/ \E region \in IngestRegions : IngestExcelSheets(region)
    \/ IngestExcelReturn
    \/ \E region \in IngestRegions : NormalizeFirstSheet(region)
    \/ AppendTimeseriesCall

SpecIngest == InitIngest /\ [][NextIngest]_vars

(***************************************************************************)
(* The life of the store: ingestions (Next), the queries and the admin     *)
(* route /api/admin/cleanup/old-data (main.py, cleanup_old_data)           *)
(***************************************************************************)

\* the UTC date of the model is the 25th of September of now_year
TodayMonth == 9

TodayDay == 25

\* the months parameter of the cleanup route (1..120, default 6)
CleanupMonths == {1, 6}

SqliteDateNow(year, month, day, months) ==
    Pad4(year) \o <<"-">> \o Pad2(month) \o <<"-">> \o Pad2(day)

\* date('now', '-<months> months') of SQLite, now being year-month-day; the
\* day (at most 28 here) exists in every month, so no day is carried over
SqliteDateMinusMonths(year, month, day, months) ==
    LET total == year * 12 + (month - 1) - months
    IN  Pad4(total \div 12) \o <<"-">> \o Pad2((total % 12) + 1) \o <<"-">> \o Pad2(day)

\* cleanup_old_data(months): DELETE ... WHERE ts_utc < date('now', ?) and
\* the commit, in a connection of its own; with the write lock taken the
\* DELETE waits
CleanupOldData(months) ==
    LET cutoff == SqliteDateMinusMonths(now_year, TodayMonth, TodayDay, months)
        Keep(r) == ~TextLess(r.ts_utc, cutoff)
    IN  /\ lock = "none"
        /\ db' = SelectBag(db, Keep)
        /\ UNCHANGED <<lock, txn, pc, job, outcome, now_year, ingests, hist>>
        /\ UNCHANGED <<parseVars, queryVars, fetchVars>>

\* the requests made while the store is written to: /api/stats,
\* /api/display/latest and /api/display/by-date of client x, workspace L
LifecycleQueries ==
    {[op |-> "stats", client |-> ClientX, region |-> <<"E">>, workspace |-> <<"L">>,
      basis |-> "days", n |-> 2],
     [NoQuery EXCEPT !.op = "latest", !.client = ClientX, !.region = <<"E">>,
                     !.workspace = <<"L">>, !.mode = "per-parameter"],
     [NoQuery EXCEPT !.op = "by_date", !.client = ClientX, !.workspace = <<"L">>,
                     !.date = <<"2", "0", "2", "4", "-", "0", "8", "-", "2", "1">>,
                     !.time_slot = <<"0", "9", "3", "0">>]}

\* a request arrives
Request(q) ==
    /\ query = NoQuery
    /\ query' = q
    /\ UNCHANGED <<storeVars, parseVars, matched, response, stats, fetchVars>>

NextLifecycle ==
    \/ Next
    \/ \E months \in CleanupMonths : CleanupOldData(months)
    \/ \E q \in LifecycleQueries : Request(q)
    \/ StatsReadDf(query.client, query.region, query.workspace)
    \/ ComputeStats(query.basis, query.n)
    \/ ApiDisplayLatest(query.client, query.workspace, query.region, query.mode)
    \/ DisplayByDate(query.client, query.workspace, query.region,
                     query.date, query.time_slot, query.sheet)

SpecLifecycle == Init /\ [][NextLifecycle]_vars

(***************************************************************************)
(* Fetching: the options routes that write clients.json (main.py,          *)
(* add_client and add_region), the manual route                            *)
(* api_ingest_by_client_region and the auto-fetch thread (auto_fetcher.py) *)
(***************************************************************************)

\* how many cycles the auto-fetch thread starts in a behaviour
MaxCycles == 2

\* the sender address given to the options routes
SenderS == <<"s">>

\* the region of add_region
ConfigRegions == {<<"E">>}

\* the region of a manual request: None, "E"
ManualRegions == {NULL, <<"E">>}

\* what the mailbox and the storage do for one fetch: a workbook is saved
\* and ingested, no mail matches or the PowerShell call raises, ingest_excel
\* raises
Outcomes == {"ingested", "fetch_failed", "ingest_failed"}

\* the batch of the fetched workbook (mail m1) per client, region argument
\* and UTC year
FetchBatches ==
    [c \in ClientNames, r \in {<<>>, <<"E">>}, y \in 2024..(2024 + MaxTicks) |->
       IngestBatch(Mail("m1").workbook, c, r, "m1", Mail("m1").received_iso, y)]

\* the characters of client and region names, in code point order
NameChars == <<"A", "E", "x", "y">>

NameCode(c) == CHOOSE i \in 1..Len(NameChars) : NameChars[i] = c

RECURSIVE NameLess(_, _)
\* a < b for two names, as Python's str order
NameLess(a, b) ==
    IF b = <<>> THEN FALSE
    ELSE IF a = <<>> THEN TRUE
    ELSE IF Head(a) = Head(b) THEN NameLess(Tail(a), Tail(b))
    ELSE NameCode(Head(a)) < NameCode(Head(b))

\* (a.client, a.region) < (b.client, b.region)
FilterLess(a, b) ==
    \/ NameLess(a.client, b.client)
    \/ a.client = b.client /\ NameLess(a.region, b.region)

RECURSIVE SortedFilters(_)
\* sorted(unique_filters, key=lambda x: (x['client'], x['region']))
SortedFilters(S) ==
    IF S = {} THEN <<>>
    ELSE LET m == CHOOSE x \in S : \A y \in S : y = x \/ FilterLess(x, y)
         IN  <<m>> \o SortedFilters(S \ {m})

\* generate_auto_fetch_filters(): one filter per region of every client with
\* a non-empty regions dict, one with region "" per client with a "sender"
\* key, without duplicates, sorted by (client, region)
GenerateAutoFetchFilters(store) ==
    LET configured == {c \in DOMAIN store : store[c].present}
        regional == UNION {{[client |-> c, region |-> r] : r \in DOMAIN store[c].regions} :
                              c \in configured}
        top == {[client |-> c, region |-> <<>>] : c \in {x \in configured : store[x].has_sender}}
    IN  SortedFilters(regional \cup top)

\* lookup_sender_for_pair(client, region); sender_map.json does not exist
LookupSenderForPair(store, client, region) ==
    IF client \notin DOMAIN store \/ ~store[client].present THEN NULL
    ELSE IF region # <<>>
    THEN IF region \in DOMAIN store[client].regions /\ store[client].regions[region] # <<>>
         THEN Strip(store[client].regions[region])
         ELSE NULL
    ELSE IF store[client].has_sender /\ store[client].sender # <<>>
         THEN Strip(store[client].sender)
         ELSE NULL

\* add_client(req): name, has_regions and sender (None or a text)
AddClient(name, has_regions, sender) ==
    LET node == IF clients[name].present THEN clients[name]
                ELSE [NoNode EXCEPT !.present = TRUE]
    IN  /\ Strip(name) # <<>>
        /\ has_regions \/ (sender # NULL /\ sender # <<>>)
        /\ clients' =
              [clients EXCEPT ![Strip(name)] =
                  IF ~has_regions
                  THEN [node EXCEPT !.has_sender = TRUE, !.sender = Strip(sender),
                                    !.regions = <<>>]
                  ELSE IF sender # NULL /\ sender # <<>>
                  THEN [node EXCEPT !.has_sender = TRUE, !.sender = Strip(sender)]
                  ELSE node]
        /\ UNCHANGED <<storeVars, parseVars, queryVars, loop, filters, cursor, log, cycles, fetched>>

\* add_region(req): client, region and sender
AddRegion(client0, region0, sender0) ==
    LET client == Strip(client0)
        region == Strip(region0)
        sender == Strip(sender0)
        node == IF clients[client].present THEN clients[client]
                ELSE [NoNode EXCEPT !.present = TRUE]
    IN  /\ client # <<>> /\ region # <<>>
        /\ sender # <<>>
        /\ clients' =
              [clients EXCEPT ![client] =
                  [node EXCEPT !.regions =
                      [r \in DOMAIN node.regions \cup {region} |->
                          IF r = region THEN sender ELSE node.regions[r]]]]
        /\ UNCHANGED <<storeVars, parseVars, queryVars, loop, filters, cursor, log, cycles, fetched>>

\* api_ingest_by_client_region(req) with req.client and req.region, o being
\* what the mailbox and the storage do: the validation against clients.json,
\* the fetch and ingest_excel(saved_path, client=, region=req.region or "")
ApiIngestByClientRegion(client, region, o) ==
    LET node == clients[client]
        given == region # NULL /\ Strip(region) # <<>>
        accepted ==
            /\ node.present
            /\ IF DOMAIN node.regions # {}
               THEN /\ given
                    /\ region \in DOMAIN node.regions
                    /\ Strip(node.regions[region]) # <<>>
               ELSE /\ ~given
                    /\ node.has_sender /\ Strip(node.sender) # <<>>
        region_arg == IF region = NULL THEN <<>> ELSE region
    IN  /\ db' = IF accepted /\ o = "ingested"
                 THEN ApplyRows(db, fetched[client, region_arg, now_year], 1)
                 ELSE db
        /\ UNCHANGED <<lock, txn, pc, job, outcome, now_year, ingests, hist>>
        /\ UNCHANGED <<parseVars, queryVars, fetchVars>>

\* run_auto_fetch_cycle() up to its loop: the filters of this cycle
StartCycle ==
    /\ loop = "sleeping"
    /\ cycles < MaxCycles
    /\ cycles' = cycles + 1
    /\ filters' = GenerateAutoFetchFilters(clients)
    /\ cursor' = 1
    /\ log' = <<>>
    /\ loop' = IF GenerateAutoFetchFilters(clients) = <<>> THEN "sleeping" ELSE "cycle"
    /\ UNCHANGED <<storeVars, parseVars, queryVars, clients, fetched>>

ProcessNextFilterOrStop(o) ==
    LET f == filters[cursor]
        sender == LookupSenderForPair(clients, Strip(f.client), Strip(f.region))
        result == IF sender = NULL THEN "no_sender" ELSE o
    IN  /\ loop = "cycle"
        /\ cursor <= Len(filters)
        /\ db' = IF result = "ingested"
                 THEN ApplyRows(db, fetched[Strip(f.client), Strip(f.region), now_year], 1)
                 ELSE db
        /\ log' = Append(log, [client |-> f.client, region |-> f.region,
                               ok |-> result = "ingested"])
        /\ cursor' = IF result = "ingested" THEN cursor + 1 ELSE Len(filters) + 1
        /\ UNCHANGED <<lock, txn, pc, job, outcome, now_year, ingests, hist>>
        /\ UNCHANGED <<parseVars, queryVars, clients, loop, filters, cycles, fetched>>

\* one turn of the loop of run_auto_fetch_cycle:
\* process_auto_fetch_filter(filter_config), o being what the mailbox and
\* the storage do; every failure is caught and makes it return False
ProcessNextFilter(o) ==
    LET f == filters[cursor]
        sender == LookupSenderForPair(clients, Strip(f.client), Strip(f.region))
        result == IF Strip(f.client) = <<>> THEN "no_client"
                  ELSE IF sender = NULL THEN "no_sender" ELSE o
    IN  /\ loop = "cycle"
        /\ cursor <= Len(filters)
        /\ db' = IF result = "ingested"
                 THEN ApplyRows(db, fetched[Strip(f.client), Strip(f.region), now_year], 1)
                 ELSE db
        /\ log' = Append(log, [client |-> f.client, region |-> f.region,
                               ok |-> result = "ingested"])
        /\ cursor' = cursor + 1
        /\ UNCHANGED <<lock, txn, pc, job, outcome, now_year, ingests, hist>>
        /\ UNCHANGED <<parseVars, queryVars, clients, loop, filters, cycles, fetched>>

\* the end of run_auto_fetch_cycle and time.sleep in auto_fetch_loop
EndCycle ==
    /\ loop = "cycle"
    /\ cursor > Len(filters)
    /\ loop' = "sleeping"
    /\ UNCHANGED <<storeVars, parseVars, queryVars, clients, filters, cursor, log, cycles, fetched>>

AutoFetchLoop ==
    \/ StartCycle
    \/ \E o \in Outcomes : ProcessNextFilter(o)
    \/ EndCycle

NextFetch ==
    \/ \E has_regions \in BOOLEAN, sender \in {NULL, SenderS} :
          AddClient(ClientX, has_regions, sender)
    \/ AddClient(ClientY, FALSE, SenderS)
    \/ \E region \in ConfigRegions : AddRegion(ClientX, region, SenderS)
    \/ \E client \in ClientNames, region \in ManualRegions, o \in Outcomes :
          ApiIngestByClientRegion(client, region, o)
    \/ StartCycle
    \/ \E o \in Outcomes : ProcessNextFilter(o)
    \/ EndCycle

\* clients.json does not exist, the auto-fetch thread has not run a cycle,
\* and every fetch that finds a mail saves the workbook of mail m1
InitFetch ==
    /\ InitStore
    /\ InitParseIdle!1
    /\ InitParseIdle!2
    /\ InitParseIdle!3
    /\ InitParseIdle!4
    /\ InitParseIdle!5
    /\ InitParseIdle!6
    /\ InitParseIdle!7
    /\ InitParseIdle!8
    /\ InitQueryIdle!1
    /\ InitQueryIdle!2
    /\ InitQueryIdle!3
    /\ InitQueryIdle!4
    /\ InitFetchIdle!1
    /\ InitFetchIdle!2
    /\ InitFetchIdle!3
    /\ InitFetchIdle!4
    /\ InitFetchIdle!5
    /\ InitFetchIdle!6
    /\ fetched = FetchBatches

SpecFetch == InitFetch /\ [][NextFetch]_vars

\* the auto-fetch thread keeps running: a call of process_auto_fetch_filter
\* returns, and time.sleep ends
FairSpecFetch == SpecFetch /\ WF_vars(AutoFetchLoop)

(***************************************************************************)
(* Properties of the store                                                 *)
(***************************************************************************)

\* r and s have the same identity tuple: with region present
\* (client, region, sheet_name, parameter, ts_utc), with region absent
\* (client, sheet_name, parameter, ts_utc)
SameIdentity(r, s) ==
    /\ r.client = s.client
    /\ r.sheet_name = s.sheet_name
    /\ r.parameter = s.parameter
    /\ r.ts_utc = s.ts_utc
    /\ IF r.region = NULL THEN s.region = NULL ELSE s.region # NULL /\ s.region = r.region

\* a region argument that is absent, empty or whitespace-only
BlankRegion(region) ==
    region = NULL \/ \A i \in 1..Len(region) : region[i] = " "

\* the row of the batch that comes last among those with the identity of rows[i]
LastWithIdentity(rows, i) ==
    rows[CHOOSE j \in i..Len(rows) :
            /\ SameIdentity(rows[j], rows[i])
            /\ \A k \in (j + 1)..Len(rows) : ~SameIdentity(rows[k], rows[i])]

Committed == hist.rows # <<>>

\* C1: in every reachable state of timeseries_data no two rows with region
\* present share (client, region, sheet_name, parameter, ts_utc) and no two
\* rows with region absent share (client, sheet_name, parameter, ts_utc).
C1_UniqueIdentity ==
    /\ \A r \in BagToSet(db) : CopiesIn(r, db) = 1
    /\ \A r, s \in BagToSet(db) :
          /\ ( /\ r.region # NULL /\ s.region # NULL
               /\ <<r.client, r.region, r.sheet_name, r.parameter, r.ts_utc>>
                    = <<s.client, s.region, s.sheet_name, s.parameter, s.ts_utc>> ) => r = s
          /\ ( /\ r.region = NULL /\ s.region = NULL
               /\ <<r.client, r.sheet_name, r.parameter, r.ts_utc>>
                    = <<s.client, s.sheet_name, s.parameter, s.ts_utc>> ) => r = s

\* the last batch carried two rows of one identity, and the store holds a row
\* with region present and a row with region absent that agree in client,
\* sheet_name, parameter and ts_utc
C1_Witness ==
    /\ \E i, j \in 1..Len(hist.rows) : i < j /\ SameIdentity(hist.rows[i], hist.rows[j])
    /\ \E r, s \in BagToSet(db) :
          /\ r.region = NULL
          /\ s.region # NULL
          /\ <<r.client, r.sheet_name, r.parameter, r.ts_utc>>
               = <<s.client, s.sheet_name, s.parameter, s.ts_utc>>

C3_SameArguments ==
    ( /\ Committed
      /\ hist.prev.client = hist.call.client
      /\ hist.prev.region = hist.call.region
      /\ hist.prev.mail = hist.call.mail ) => db = hist.before

\* C3 (amended): ingest_excel called twice in a row with the same arguments
\* leaves the rows of the store as the first call left them, provided both
\* calls infer the same year hint (received_iso is parseable, or the UTC year
\* did not change between the calls).
C3_Idempotent ==
    (Committed /\ hist.prev = hist.call) => db = hist.before

\* the same call committed twice in a row, for a selector with and for one
\* without region
C3_Witness ==
    /\ Committed
    /\ hist.prev = hist.call
    /\ db = hist.before
    /\ Len(hist.rows) > 1

\* C4: a storage failure during append_timeseries leaves the store as it was
\* and is raised to the caller; the store changes only by the commit of a
\* whole batch.
C4_BatchAtomic ==
    [][ /\ \A w \in Writers :
              (pc[w] # "idle" /\ pc'[w] = "idle" /\ job[w].next <= Len(job[w].rows)) =>
                 (db' = db /\ outcome'[w].kind = "error")
        /\ \A w \in Writers :
              (outcome[w].kind # "error" /\ outcome'[w].kind = "error") => db' = db
        /\ db' # db =>
              \E w \in Writers :
                 /\ pc[w] = "writing"
                 /\ job[w].next > Len(job[w].rows)
                 /\ outcome'[w].kind = "ok"
                 /\ \A i \in 1..Len(job[w].rows) :
                       \E r \in BagToSet(db') : SameIdentity(r, job[w].rows[i])
      ]_vars

\* a call failed after some but not all statements of its batch had run, and
\* none of its rows is in the store
C4_Witness ==
    \E w \in Writers :
        /\ outcome[w].kind = "error"
        /\ outcome[w].executed >= 1
        /\ db = EmptyBag
        /\ ingests = 1

\* C5: concurrent writers are serialized batch by batch: at most one write
\* transaction is open, and every row of the store that has an identity of the
\* batch committed last is a row of that batch (shared identities all carry
\* the values of the batch that committed last).
C5_Serialized ==
    /\ Cardinality({w \in Writers : pc[w] = "writing"}) <= 1
    /\ \A w \in Writers : pc[w] = "writing" <=> lock = w
    /\ \A r \in BagToSet(db) :
          (\E i \in 1..Len(hist.rows) : SameIdentity(r, hist.rows[i])) =>
             /\ CopiesIn(r, db) = 1
             /\ \E i \in 1..Len(hist.rows) : r = hist.rows[i]

\* two ingestions in flight whose batches share an identity, one inside its
\* transaction, the other about to start its own
C5_Witness ==
    \E w, v \in Writers :
        /\ pc[w] = "writing"
        /\ pc[v] = "ready"
        /\ job[w].call.mail # job[v].call.mail
        /\ \E i \in 1..Len(job[w].rows), j \in 1..Len(job[v].rows) :
              /\ SameIdentity(job[w].rows[i], job[v].rows[j])
              /\ job[w].rows[i].value # job[v].rows[j].value

\* C6: an ingestion for (client C, region R) inserts or replaces only rows of
\* client C and region R (absent when R is blank); every other row is left
\* as it was, under every interleaving of ingestions.
C6_NoCrossContamination ==
    LET c == hist.call.client
        stored == IF BlankRegion(hist.call.region) THEN NULL ELSE hist.call.region
    IN  Committed =>
          /\ \A i \in 1..Len(hist.rows) :
                hist.rows[i].client = c /\ hist.rows[i].region = stored
          /\ \A r \in BagToSet(hist.before) \cup BagToSet(db) :
                (r.client # c \/ r.region # stored) =>
                   CopiesIn(r, db) = CopiesIn(r, hist.before)

\* a batch was committed while the store held rows that differ from a batch
\* row only in the client, only in the region, and only in having no region
C6_Witness ==
    /\ Committed
    /\ \E i \in 1..Len(hist.rows) :
          LET b == hist.rows[i]
              Alike(r) == /\ r.sheet_name = b.sheet_name
                          /\ r.parameter = b.parameter
                          /\ r.ts_utc = b.ts_utc
                          /\ r \in BagToSet(db)
          IN  /\ b.region # NULL
              /\ \/ \E r \in BagToSet(hist.before) :
                       Alike(r) /\ r.client # b.client /\ r.region = b.region
                 \/ \E r \in BagToSet(hist.before) :
                       Alike(r) /\ r.client = b.client /\ r.region = NULL
                 \/ \E r \in BagToSet(hist.before) :
                       Alike(r) /\ r.client = b.client /\ r.region \notin {NULL, b.region}

\* C7: a region argument that is absent, empty or whitespace-only is stored
\* as NULL, and no stored row has region equal to the empty string.
C7_RegionNormalized ==
    /\ \A r \in BagToSet(db) \cup BagToSet(txn) : r.region # <<>>
    /\ \A w \in Writers :
          BlankRegion(job[w].call.region) =>
             \A i \in 1..Len(job[w].rows) : job[w].rows[i].region = NULL
    /\ BlankRegion(hist.call.region) =>
          \A i \in 1..Len(hist.rows) : hist.rows[i].region = NULL

\* a batch ingested with region " " is in the store, with region NULL, and a
\* batch built for region "" is about to be written
C7_Witness ==
    /\ Committed
    /\ hist.call.region = <<" ">>
    /\ \E r \in BagToSet(db) : r.region = NULL /\ r.message_id = "m2"
    /\ \E w \in Writers :
          /\ pc[w] = "ready"
          /\ job[w].call.region = <<>>
          /\ job[w].rows[1].region = NULL

\* C18: whenever the upsert transaction of a call fails, what the caller is
\* told (the response of the ingest API, the result of the auto-fetch step)
\* differs from what it is told when ingest_excel returns (0, 0).
C18_FailureDistinguishable ==
    /\ outcome["api"].kind = "error" =>
          ApiIngestResponse(outcome["api"]) # ApiIngestResponse(Returned(0, 0))
    /\ outcome["auto"].kind = "error" =>
          ProcessAutoFetchFilter(outcome["auto"]) # ProcessAutoFetchFilter(Returned(0, 0))

(***************************************************************************)
(* Properties of whole calls (SpecIngest)                                  *)
(***************************************************************************)

\* the call of ingest_excel has returned
IngestExcelReturned == hist.call.mail = "m0" /\ workbook # <<>>

\* the call of append_timeseries has returned
AppendTimeseriesReturned == hist.call.mail = "append"

\* the points _normalize_sheet makes of the k-th sheet of the workbook
SheetPoints(k) ==
    NormalizeSheet(workbook[k].df, hist.call.client, hist.call.region,
                   Upper(Strip(workbook[k].name)), "m0", Received2024,
                   workbook[k].name, 2024)

UsableSheets == {k \in 1..Len(workbook) : SheetPoints(k) # <<>>}

\* the points of the usable sheets, as <<sheet, index>>
UsablePoints == UNION {{<<k, i>> : i \in 1..Len(SheetPoints(k))} : k \in UsableSheets}

\* C16: for a workbook with any mix of usable sheets and sheets that yield no
\* rows, ingest_excel returns without failing; every point of a usable sheet
\* is stored under its identity, the store gains no other row, rows_written
\* is the number of points of the usable sheets and unique_parameters the
\* number of their distinct parameters; when no sheet is usable it returns
\* (0, 0) and the store is as it was.
C16_PartialSuccess ==
    IngestExcelReturned =>
        /\ outcome["api"].kind = "ok"
        /\ \A p \in UsablePoints :
              \E r \in BagToSet(db) : SameIdentity(r, SheetPoints(p[1])[p[2]])
        /\ \A r \in BagToSet(db) :
              \/ r \in BagToSet(hist.before)
              \/ \E p \in UsablePoints : r = SheetPoints(p[1])[p[2]]
        /\ \A r \in BagToSet(hist.before) :
              \/ r \in BagToSet(db)
              \/ \E p \in UsablePoints : SameIdentity(r, SheetPoints(p[1])[p[2]])
        /\ outcome["api"].rows_written = Cardinality(UsablePoints)
        /\ outcome["api"].unique_parameters =
              Cardinality({SheetPoints(p[1])[p[2]].parameter : p \in UsablePoints})
        /\ UsableSheets = {} => outcome["api"] = Returned(0, 0) /\ db = hist.before

\* a workbook with a sheet that yields no rows before a usable sheet was
\* ingested and the usable sheet's rows were counted
C16_Witness ==
    /\ IngestExcelReturned
    /\ \E k \in UsableSheets : \E j \in 1..(k - 1) : j \notin UsableSheets
    /\ outcome["api"].rows_written > 0
    /\ db # hist.before

\* C17: append_timeseries on an empty batch returns (0, 0) and leaves the
\* store as it was; otherwise rows_written is the number of rows of the batch
\* and unique_parameters the number of distinct parameter values of the
\* batch, whatever the store held before or holds after.
C17_ReturnValue ==
    AppendTimeseriesReturned =>
        IF hist.rows = <<>>
        THEN outcome["auto"] = Returned(0, 0) /\ db = hist.before
        ELSE /\ outcome["auto"].kind = "ok"
             /\ outcome["auto"].rows_written = Len(hist.rows)
             /\ outcome["auto"].unique_parameters =
                   Cardinality({hist.rows[i].parameter : i \in 1..Len(hist.rows)})

\* a batch of three rows with two parameters went into a store that held
\* both of its identities: the call returned (3, 2) and the store grew by no
\* row
C17_Witness ==
    /\ AppendTimeseriesReturned
    /\ outcome["auto"] = Returned(3, 2)
    /\ hist.before # EmptyBag
    /\ BagCardinality(db) = BagCardinality(hist.before)

(***************************************************************************)
(* Properties of the queries (SpecQuery)                                   *)
(***************************************************************************)

\* the query supplies a region: one that is not empty after trimming
Supplied(region) == region # NULL /\ Strip(region) # <<>>

\* the columns the operation op returns of a stored row
ColumnsOf(op, r) ==
    CASE op = "read_df" -> FrameColumns(r)
      [] op = "latest" -> LatestColumns(r)
      [] OTHER -> ByDateColumns(r)

\* C8: in the stats, latest and exact-timestamp queries alike, a query that
\* supplies a region returns only rows stored with exactly that (trimmed)
\* region, a query that omits or blanks it returns only rows whose region is
\* absent or empty, and no stored row is matched by both modes; rows
\* ingested with region "" (stored without region) are all returned by the
\* stats query without region and none of them by a query with a region.
C8_RegionFilter ==
    /\ \A r \in BagToSet(matched) :
          /\ r \in BagToSet(db)
          /\ IF Supplied(query.region)
             THEN r.region = Strip(query.region)
             ELSE r.region = NULL \/ r.region = <<>>
    /\ response.status # "none" =>
          \A x \in BagToSet(response.rows) :
             \E r \in BagToSet(matched) : x = ColumnsOf(query.op, r)
    /\ \A r \in BagToSet(db), given \in QRegions :
          Supplied(given) => ~(RegionClause(given, r) /\ RegionClause(NULL, r))
    /\ (query.op = "read_df" /\ response.status # "none" /\ ~Supplied(query.region)) =>
          \A r \in BagToSet(db) :
             (/\ r.client = query.client
              /\ r.workspace = Upper(Strip(query.workspace))
              /\ r.region = NULL) => r \in BagToSet(matched)

\* the table holds rows of client x, workspace L without region and with
\* region "E": the stats query that omits the region returned the former
\* and not the latter
C8_Witness ==
    /\ query.op = "read_df"
    /\ query.region = NULL
    /\ response.status = "ok"
    /\ \E r \in BagToSet(matched) : r.region = NULL
    /\ \E r \in BagToSet(db) :
          /\ r.client = query.client
          /\ r.workspace = Upper(Strip(query.workspace))
          /\ r.region = <<"E">>
          /\ r \notin BagToSet(matched)

\* the header text MM/DD-HHMM of the date d and the slot HH:MM:SS
HeaderOf(d, slot) ==
    Pad2(d.month) \o <<"/">> \o Pad2(d.day) \o <<"-">> \o SubSeq(slot, 1, 2) \o SubSeq(slot, 4, 5)

\* the ts_utc ingestion stores for the header of date d and slot under the
\* year hint year(d)
StoredStamp(d, slot) == IsoUtc(ParseHeader(HeaderOf(d, slot), d.year))

\* C11: for every date D and allowed slot S the text the exact-timestamp
\* query builds for (D, S) is, character by character, the ts_utc ingestion
\* stores for a header with D's month/day and S's hour/minute under the year
\* hint year(D); hence every stored point of the selector at that header's
\* instant is returned by the query for D and S.
C11_SameStamp ==
    (query.op = "by_date" /\ response.status \in {"ok", "not_found"}) =>
        LET d == ParseDate(query.date)
            slot == NormalizeSlot(query.time_slot)
        IN  /\ slot \in TIME_SLOTS
            /\ response.ts = StoredStamp(d, slot)
            /\ \A r \in BagToSet(db) :
                  (/\ r.client = Strip(query.client)
                   /\ r.workspace = Upper(Strip(query.workspace))
                   /\ IF Supplied(query.region)
                      THEN r.region = Strip(query.region)
                      ELSE r.region = NULL
                   /\ query.sheet = NULL
                   /\ r.ts_utc = StoredStamp(d, slot))
                  => ByDateColumns(r) \in BagToSet(response.rows)

\* after the sheet with P=10 and Q=30 under "08/21-0930" (received in 2024)
\* was ingested without region, the query for 2024-08-21, slot 0930, no
\* region returns P=10 and Q=30
C11_Witness ==
    /\ query.op = "by_date"
    /\ query.date = <<"2", "0", "2", "4", "-", "0", "8", "-", "2", "1">>
    /\ query.time_slot = <<"0", "9", "3", "0">>
    /\ query.region = NULL
    /\ response.status = "ok"
    /\ \E x, y \in BagToSet(response.rows) :
          /\ x.parameter = <<"P">> /\ x.value = 10
          /\ y.parameter = <<"Q">> /\ y.value = 30
          /\ x.ts_utc = response.ts /\ y.ts_utc = response.ts

\* the forms of the three slots: compact, colon and full
Forms0930 == {<<"9", "3", "0">>, <<"9", ":", "3", "0">>, <<"0", "9", ":", "3", "0">>, <<"0", "9", ":", "3", "0", ":", "0", "0">>, <<"0", "9", "3", "0">>}

Forms0130 == {<<"1", ":", "3", "0">>, <<"0", "1", "3", "0">>, <<"0", "1", ":", "3", "0", ":", "0", "0">>}

Forms1730 == {<<"1", "7", ":", "3", "0">>, <<"1", "7", "3", "0">>, <<"1", "7", ":", "3", "0", ":", "0", "0">>}

\* the exact-timestamp query got past the checks of client, workspace and date
SlotDecided ==
    /\ query.op = "by_date"
    /\ response.status # "none"
    /\ response.reason \notin {"client and workspace", "date"}

\* C12: "930", "9:30", "09:30" and "09:30:00" (and "0930") all normalize to
\* "09:30:00", the compact, colon and full forms of 01:30 and 17:30 to their
\* slot, and "10:15" to no match.
C12_SlotForms ==
    SlotDecided =>
        /\ query.time_slot \in Forms0930 =>
              response.status # "bad_request" /\ SubSeq(response.ts, 12, 19) = <<"0", "9", ":", "3", "0", ":", "0", "0">>
        /\ query.time_slot \in Forms0130 =>
              response.status # "bad_request" /\ SubSeq(response.ts, 12, 19) = <<"0", "1", ":", "3", "0", ":", "0", "0">>
        /\ query.time_slot \in Forms1730 =>
              response.status # "bad_request" /\ SubSeq(response.ts, 12, 19) = <<"1", "7", ":", "3", "0", ":", "0", "0">>
        /\ query.time_slot = <<"1", "0", ":", "1", "5">> =>
              response.status = "bad_request" /\ response.reason = "time_slot"

\* a text that is missing or blank
Blank(txt) == txt = NULL \/ Strip(txt) = <<>>

\* C13: every query with a malformed date, a time slot outside the allowed
\* slots or a missing or blank client or workspace is rejected with a
\* structured validation error (a reason and, for the slot, the allowed
\* slots) and returns no rows; it is never answered as a success or as
\* "no data".
C13_ValidationErrors ==
    (/\ response.status # "none"
     /\ \/ Blank(query.client)
        \/ Blank(query.workspace)
        \/ query.op = "by_date" /\ ParseDate(query.date) = NoMatch
        \/ query.op = "by_date" /\ NormalizeSlot(query.time_slot) \notin TIME_SLOTS)
    => /\ response.status = "bad_request"
       /\ response.reason # ""
       /\ response.reason = "time_slot" => response.allowed = TIME_SLOTS
       /\ response.rows = EmptyBag
       /\ matched = EmptyBag

(***************************************************************************)
(* Properties of the statistics (SpecStats)                                *)
(***************************************************************************)

\* compute_stats with basis="days" has returned
StatsDone == query.op = "stats" /\ query.basis = "days" /\ response.status = "ok"

\* compute_stats with basis="months" has returned
MonthsDone == query.op = "stats" /\ query.basis = "months" /\ response.status = "ok"

\* the UTC date of a stored timestamp: its first ten characters
DayOf(r) == SubSeq(r.ts_utc, 1, 10)

\* the stored points of the selector that belong to parameter p
PointsOf(p) == {r \in BagToSet(matched) : r.parameter = p}

DatesOf(p) == {DayOf(r) : r \in PointsOf(p)}

AllDates == {DayOf(r) : r \in BagToSet(matched)}

\* the n most recent of a set of dates, all of them if there are fewer
Latest(S, n) == {d \in S : Cardinality({e \in S : TextLess(d, e)}) < n}

\* the dates of the entries reported for parameter p
Reported(p) ==
    IF p \in DOMAIN stats.by_parameter
    THEN {stats.by_parameter[p].daily[i].date : i \in 1..Len(stats.by_parameter[p].daily)}
    ELSE {}

\* n clamped to [1, 7]
Asked == IF query.n < 1 THEN 1 ELSE IF query.n > 7 THEN 7 ELSE query.n

\* the entries of a parameter come in the order of their dates, one per
\* date, with mean, maximum and minimum of that date
Populated(p) ==
    LET daily == stats.by_parameter[p].daily
    IN  /\ \A i, j \in 1..Len(daily) : i < j => TextLess(daily[i].date, daily[j].date)
        /\ \A i \in 1..Len(daily) :
              /\ SubSeq(daily[i].max.time, 1, 10) = daily[i].date
              /\ SubSeq(daily[i].min.time, 1, 10) = daily[i].date
              /\ 100 * daily[i].min.value <= daily[i].avg
              /\ daily[i].avg <= 100 * daily[i].max.value

\* C19 as stated: with basis="days" n is clamped to [1,7] and every reported
\* date is one of the most recent n dates present; a parameter with three
\* distinct days of data and n=2 is reported with exactly its latest 2 days,
\* each with mean, max and min.
C19_LatestDaysOfParameter ==
    (StatsDone /\ matched # EmptyBag) =>
        /\ stats.days = Asked
        /\ \A p \in DOMAIN stats.by_parameter :
              Reported(p) \subseteq Latest(AllDates, Asked) /\ Populated(p)
        /\ \A r \in BagToSet(matched) :
              (Cardinality(DatesOf(r.parameter)) = 3 /\ query.n = 2) =>
                  Reported(r.parameter) = Latest(DatesOf(r.parameter), 2)

\* C19 (amended): with basis="days" n is clamped to [1,7] and the window is
\* the most recent n distinct UTC dates present among all rows of the
\* selector (all dates if fewer exist); a parameter is reported with exactly
\* those of its dates that lie in the window, each with mean, max and min,
\* and is not reported when it has none; a parameter with three distinct
\* days and n=2 is reported with exactly its latest 2 days when these are the
\* latest 2 dates of the selector.
C19_DailyWindow ==
    StatsDone =>
        /\ stats.ok
        /\ matched = EmptyBag => stats.by_parameter = <<>> /\ stats.note # ""
        /\ matched # EmptyBag =>
              /\ stats.days = Asked
              /\ \A r \in BagToSet(matched) :
                    /\ Reported(r.parameter) = DatesOf(r.parameter) \cap Latest(AllDates, Asked)
                    /\ r.parameter \in DOMAIN stats.by_parameter <=>
                          DatesOf(r.parameter) \cap Latest(AllDates, Asked) # {}
                    /\ ( /\ Cardinality(DatesOf(r.parameter)) = 3
                         /\ query.n = 2
                         /\ Latest(DatesOf(r.parameter), 2) = Latest(AllDates, 2) ) =>
                          Reported(r.parameter) = Latest(DatesOf(r.parameter), 2)
              /\ \A p \in DOMAIN stats.by_parameter : PointsOf(p) # {} /\ Populated(p)

\* n=2 was asked of a store where P has three days of data: P is reported
\* with its latest two days, Q with the one day it has
C19_Witness ==
    /\ StatsDone
    /\ query.n = 2
    /\ Cardinality(DatesOf(<<"P">>)) = 3
    /\ Reported(<<"P">>) = Latest(DatesOf(<<"P">>), 2)
    /\ Cardinality(Reported(<<"P">>)) = 2
    /\ Cardinality(Reported(<<"Q">>)) = 1

\* the isoformat() text of the timestamp of a stored point
IsoTime(r) == [r.ts_utc EXCEPT ![11] = "T"]

\* C20: for every reported (parameter, date), max is the (timestamp, value)
\* pair of a stored point of that parameter on that date whose value is >=
\* every value of that date, min likewise <=; the rolling summary's max_day
\* is a reported day whose max value is the largest and min_day a reported
\* day whose min value is the smallest.
C20_DailyExtremes ==
    StatsDone =>
        \A p \in DOMAIN stats.by_parameter :
            LET daily == stats.by_parameter[p].daily
                rolling == stats.by_parameter[p].rolling
                OnDay(i) == {r \in PointsOf(p) : DayOf(r) = daily[i].date}
            IN  /\ \A i \in 1..Len(daily) :
                      /\ \E r \in OnDay(i) :
                            /\ daily[i].max = [time |-> IsoTime(r), value |-> r.value]
                            /\ \A x \in OnDay(i) : x.value <= r.value
                      /\ \E r \in OnDay(i) :
                            /\ daily[i].min = [time |-> IsoTime(r), value |-> r.value]
                            /\ \A x \in OnDay(i) : x.value >= r.value
                /\ \E i \in 1..Len(daily) :
                      /\ rolling.max_day = [date |-> daily[i].date, value |-> daily[i].max.value]
                      /\ \A j \in 1..Len(daily) : daily[j].max.value <= daily[i].max.value
                /\ \E i \in 1..Len(daily) :
                      /\ rolling.min_day = [date |-> daily[i].date, value |-> daily[i].min.value]
                      /\ \A j \in 1..Len(daily) : daily[j].min.value >= daily[i].min.value

\* a parameter is reported with three days; on one of them the later point
\* holds the smaller value, and the day of the largest maximum is not the
\* last one
C20_Witness ==
    /\ StatsDone
    /\ \E p \in DOMAIN stats.by_parameter :
          LET daily == stats.by_parameter[p].daily
              rolling == stats.by_parameter[p].rolling
          IN  /\ Len(daily) = 3
              /\ \E i \in 1..3 : /\ daily[i].max.value > daily[i].min.value
                                 /\ TextLess(daily[i].max.time, daily[i].min.time)
              /\ rolling.max_day.date # daily[3].date
              /\ rolling.max_day.value > rolling.min_day.value

\* the calendar month of a stored timestamp: its first seven characters
MonthOfRow(r) == SubSeq(r.ts_utc, 1, 7)

MonthsOf(p) == {MonthOfRow(r) : r \in PointsOf(p)}

AllMonths == {MonthOfRow(r) : r \in BagToSet(matched)}

\* the months of the entries reported for parameter p
ReportedMonths(p) ==
    IF p \in DOMAIN stats.by_parameter
    THEN {stats.by_parameter[p].months[i].month : i \in 1..Len(stats.by_parameter[p].months)}
    ELSE {}

\* n clamped to [1, 6]
AskedMonths == IF query.n < 1 THEN 1 ELSE IF query.n > 6 THEN 6 ELSE query.n

\* C21: compute_stats with basis="months" clamps n to [1,6]; a parameter is
\* reported with one entry per calendar month of its data among the most
\* recent n distinct months present, in the order of the months, each entry
\* holding the month and the mean of the parameter's values of that month and
\* nothing else; the rolling summary's max_month and min_month are reported
\* months with the largest and the smallest monthly average.
C21_MonthlyStats ==
    MonthsDone =>
        /\ stats.ok
        /\ matched = EmptyBag => stats.by_parameter = <<>> /\ stats.note # ""
        /\ matched # EmptyBag =>
              /\ stats.days = AskedMonths
              /\ \A r \in BagToSet(matched) :
                    /\ ReportedMonths(r.parameter) =
                          MonthsOf(r.parameter) \cap Latest(AllMonths, AskedMonths)
                    /\ r.parameter \in DOMAIN stats.by_parameter <=>
                          MonthsOf(r.parameter) \cap Latest(AllMonths, AskedMonths) # {}
              /\ \A p \in DOMAIN stats.by_parameter :
                    LET months == stats.by_parameter[p].months
                        rolling == stats.by_parameter[p].rolling
                        InMonth(i) == {r \in PointsOf(p) : MonthOfRow(r) = months[i].month}
                        Total(i) == SumOver(InMonth(i), [r \in InMonth(i) |-> r.value])
                    IN  /\ \A i, j \in 1..Len(months) :
                              i < j => TextLess(months[i].month, months[j].month)
                        /\ \A i \in 1..Len(months) :
                              /\ DOMAIN months[i] = {"month", "avg"}
                              /\ 2 * (months[i].avg * Cardinality(InMonth(i)) - 100 * Total(i))
                                    <= Cardinality(InMonth(i))
                              /\ 2 * (100 * Total(i) - months[i].avg * Cardinality(InMonth(i)))
                                    <= Cardinality(InMonth(i))
                        /\ \E i \in 1..Len(months) :
                              /\ rolling.max_month = months[i]
                              /\ \A j \in 1..Len(months) : months[j].avg <= months[i].avg
                        /\ \E i \in 1..Len(months) :
                              /\ rolling.min_month = months[i]
                              /\ \A j \in 1..Len(months) : months[j].avg >= months[i].avg

\* seven months were asked of a store with three months of P: the keys carry
\* n = 6, P is reported with its three months, one of them a mean of two
\* different values, and the largest and the smallest month differ
C21_Witness ==
    /\ MonthsDone
    /\ query.n = 7
    /\ stats.days = 6
    /\ Cardinality(ReportedMonths(<<"P">>)) = 3
    /\ \E i \in 1..3 : stats.by_parameter[<<"P">>].months[i].avg = 600
    /\ stats.by_parameter[<<"P">>].rolling.max_month.avg
          > stats.by_parameter[<<"P">>].rolling.min_month.avg

\* no stored row belongs to the selector of the query (region omitted)
NoRowOfSelector ==
    \A r \in BagToSet(db) :
        ~( /\ r.client = query.client
           /\ Upper(r.workspace) = Upper(Strip(query.workspace))
           /\ r.region = NULL )

\* the stored text of the instant a by-date query asks for
RequestedStamp ==
    query.date \o <<" ">>
        \o (IF query.time_slot = <<"0", "1", "3", "0">>
            THEN <<"0", "1", ":", "3", "0", ":", "0", "0">>
            ELSE <<"0", "9", ":", "3", "0", ":", "0", "0">>)
        \o <<"+", "0", "0", ":", "0", "0">>

SelectorRows ==
    {r \in BagToSet(db) :
        /\ r.client = query.client
        /\ Upper(r.workspace) = Upper(Strip(query.workspace))
        /\ IF Supplied(query.region) THEN r.region = Strip(query.region)
           ELSE r.region = NULL}

\* the instant of the stored text a comes before that of b
Earlier(a, b) == SeqLess(Stamp(ToDatetimeUtc(a)), Stamp(ToDatetimeUtc(b)))

\* C23: in the latest-aligned snapshot latest_ts is the chronologically
\* greatest ts_utc among the rows of the selector, the result holds exactly
\* the selector's rows at latest_ts, and a parameter whose most recent point
\* is earlier has no row in the result.
C23_LatestAligned ==
    (query.op = "latest" /\ query.mode = "aligned" /\ response.status = "ok"
       /\ SelectorRows # {}) =>
        /\ \E r \in SelectorRows : r.ts_utc = response.ts
        /\ \A r \in SelectorRows : ~Earlier(response.ts, r.ts_utc)
        /\ BagToSet(response.rows) =
              {LatestColumns(r) : r \in {x \in SelectorRows : x.ts_utc = response.ts}}
        /\ \A x \in BagToSet(response.rows) : CopiesIn(x, response.rows) = 1
        /\ \A r \in SelectorRows :
              (\A x \in SelectorRows : x.parameter = r.parameter => Earlier(x.ts_utc, response.ts))
              => \A x \in BagToSet(response.rows) : x.parameter # r.parameter

\* P has a point at the latest instant of the selector and Q only earlier
\* ones: the aligned snapshot holds P and not Q
C23_Witness ==
    /\ query.op = "latest" /\ query.mode = "aligned" /\ response.status = "ok"
    /\ \E r \in SelectorRows : r.parameter = <<"Q">>
    /\ \E r \in SelectorRows : Earlier(r.ts_utc, response.ts)
    /\ {x.parameter : x \in BagToSet(response.rows)} = {<<"P">>}

\* C24: in the latest per-parameter snapshot every parameter with a row in the
\* selector has a row in the result, every returned row carries the greatest
\* ts_utc stored for its parameter within the selector, and the result is
\* the same whatever the rows of other selectors are.
C24_LatestPerParameter ==
    (query.op = "latest" /\ query.mode = "per-parameter" /\ response.status = "ok") =>
        /\ \A r \in SelectorRows : \E x \in BagToSet(response.rows) : x.parameter = r.parameter
        /\ BagToSet(response.rows) =
              {LatestColumns(r) : r \in {x \in SelectorRows :
                  \A y \in SelectorRows : y.parameter = x.parameter => ~Earlier(x.ts_utc, y.ts_utc)}}
        /\ \A x \in BagToSet(response.rows) : CopiesIn(x, response.rows) = 1

\* P and Q are returned with different timestamps while another selector
\* holds a later point of Q
C24_Witness ==
    /\ query.op = "latest" /\ query.mode = "per-parameter" /\ response.status = "ok"
    /\ \E x, y \in BagToSet(response.rows) :
          /\ x.parameter = <<"P">> /\ y.parameter = <<"Q">> /\ Earlier(y.ts_utc, x.ts_utc)
          /\ \E r \in BagToSet(db) \ SelectorRows :
                r.parameter = <<"Q">> /\ Earlier(y.ts_utc, r.ts_utc)

\* the identity tuples of the rows of a table
IdentitiesOf(tbl) ==
    {<<r.client, r.region, r.sheet_name, r.parameter, r.ts_utc>> : r \in BagToSet(tbl)}

\* the row is older than months months on the day of the cleanup
OlderThan(r, months) ==
    LET t == Stamp(ToDatetimeUtc(r.ts_utc))
        age == (now_year * 12 + TodayMonth) - (t[1] * 12 + t[2])
    IN  age > months \/ (age = months /\ t[3] < TodayDay)

QueryStep == response' # response \/ stats' # stats \/ matched' # matched

CleanupStep == \E months \in CleanupMonths : CleanupOldData(months)

\* C25: the stats, latest and exact-timestamp queries never change the
\* store; under ingestions and queries an identity tuple once stored stays
\* stored; rows disappear only through the cleanup, which removes exactly
\* the rows older than the months asked for.
C25_Lifecycle ==
    [][/\ QueryStep => db' = db
       /\ ~CleanupStep => IdentitiesOf(db) \subseteq IdentitiesOf(db')
       /\ \A months \in CleanupMonths : CleanupOldData(months) =>
             /\ BagToSet(db') = {r \in BagToSet(db) : ~OlderThan(r, months)}
             /\ \A r \in BagToSet(db') : CopiesIn(r, db') = CopiesIn(r, db)]_vars

\* a stored row was overwritten by an upsert of its identity, a query was
\* answered from the store, and the cleanup left the younger rows of it only
C25_Witness ==
    /\ hist.before # EmptyBag
    /\ response.status = "ok" /\ response.rows # EmptyBag
    /\ db # EmptyBag
    /\ \E r \in BagToSet(hist.before) : r \notin BagToSet(db) /\
          <<r.client, r.region, r.sheet_name, r.parameter, r.ts_utc>> \notin IdentitiesOf(db)

\* the year a batch of the mail is to carry when built in the UTC year now
HintYear(id, now) ==
    IF Mail(id).received_iso = NULL THEN now ELSE NumVal(SubSeq(Mail(id).received_iso, 1, 4))

Swapped(rows, i, j) ==
    [k \in 1..Len(rows) |-> IF k = i THEN rows[j] ELSE IF k = j THEN rows[i] ELSE rows[k]]

\* C27: the store after appending a batch does not depend on the order of
\* the rows within the batch: the batch with any two of its rows exchanged
\* leaves the same table, also when two rows share an identity tuple.
C27_OrderIndependent ==
    pc["api"] = "ready" =>
        \A i, j \in 1..Len(job["api"].rows) :
            AppendTimeseries(db, Swapped(job["api"].rows, i, j)).db
                = AppendTimeseries(db, job["api"].rows).db

\* C28: every write of a manual ingest request or of an auto-fetch cycle for
\* a client whose configuration has a non-empty regions mapping stores rows
\* of one of its configured regions only, never a region-absent row, and
\* every write for a client without regions stores region-absent rows only.
C28_ConfiguredRegionsOnly ==
    [][\A r \in BagToSet(db') \ BagToSet(db) :
          IF DOMAIN clients[r.client].regions # {}
          THEN r.region # NULL /\ r.region \in DOMAIN clients[r.client].regions
          ELSE r.region = NULL]_vars

\* C29: the exact-timestamp snapshot without a sheet filter and the
\* latest-aligned snapshot return at most one row per parameter.
C29_OneRowPerParameter ==
    (/\ response.status = "ok"
     /\ \/ query.op = "by_date" /\ query.sheet = NULL
        \/ query.op = "latest" /\ query.mode = "aligned") =>
        /\ \A x, y \in BagToSet(response.rows) : x.parameter = y.parameter => x = y
        /\ \A x \in BagToSet(response.rows) : CopiesIn(x, response.rows) = 1

\* the (client, region) pairs clients.json configures: the regions of every
\* client and, for every client with a top-level sender, the region ""
ConfiguredPairs ==
    {<<c, r>> \in ClientNames \X (ConfigRegions \cup {<<>>}) :
        /\ clients[c].present
        /\ \/ r # <<>> /\ r \in DOMAIN clients[c].regions
           \/ r = <<>> /\ clients[c].has_sender}

\* the filters of a cycle that starts: one per configured pair, in
\* (client, region) order
OneFilterPerPair ==
    cycles' = cycles + 1 =>
        /\ {<<filters'[i].client, filters'[i].region>> : i \in 1..Len(filters')} = ConfiguredPairs
        /\ Len(filters') = Cardinality(ConfiguredPairs)
        /\ \A i, j \in 1..Len(filters') :
              i < j => \/ NameLess(filters'[i].client, filters'[j].client)
                       \/ /\ filters'[i].client = filters'[j].client
                          /\ NameLess(filters'[i].region, filters'[j].region)

\* the filters processed so far are the first ones of the cycle, each once
\* and in order, whatever each call returned
ProcessedInOrder ==
    /\ Len(log) = cursor - 1
    /\ Len(log) <= Len(filters)
    /\ \A i \in 1..Len(log) :
          log[i].client = filters[i].client /\ log[i].region = filters[i].region
    /\ loop = "sleeping" => Len(log) = Len(filters)

Remaining == DropNa(frame)

\* a cell that is a number or the text of one
Numeric(cell) == cell.kind = "num" \/ (cell.kind = "str" /\ cell.str # <<>> /\ AllDigits(cell.str))

NumberOf(cell) == IF cell.kind = "num" THEN cell.num ELSE NumVal(cell.str)

\* the value columns of the remaining sheet whose header is a timestamp
StampColumns ==
    {j \in 2..Len(Remaining.columns) : ParseHeader(Remaining.columns[j], 2024) # NoMatch}

\* the rows of the remaining sheet whose label text is not empty after trimming
LabelledRows == {i \in 1..Len(Remaining.rows) : Strip(AsStr(Remaining.rows[i][1])) # <<>>}

\* C14: every stored row has a numeric value; a cell that is empty or no
\* number produces no row at all, and every numeric cell of a labelled row
\* under a timestamp header is stored with its value, whatever the other
\* cells of the sheet hold.
C14_NumericValues ==
    phase = "normalized" =>
        LET cells == {c \in LabelledRows \X StampColumns : Numeric(Remaining.rows[c[1]][c[2]])}
        IN  /\ \A k \in 1..Len(points) : points[k].value \in Nat
            /\ Len(points) = Cardinality(cells)
            /\ \A c \in cells :
                  \E k \in 1..Len(points) :
                     /\ points[k].value = NumberOf(Remaining.rows[c[1]][c[2]])
                     /\ points[k].parameter = Strip(AsStr(Remaining.rows[c[1]][1]))
                     /\ points[k].ts_utc = IsoUtc(ParseHeader(Remaining.columns[c[2]], 2024))

\* a row P with "n/a" under 08/21-0930 and 5 under 08/21-1730: the only
\* point of P is the one of 17:30 with the value 5
C14_Witness ==
    /\ phase = "normalized"
    /\ frame.columns[3] = H1730
    /\ frame.rows[1] = <<ParamP, Str(<<"n", "/", "a">>), Num(5)>>
    /\ frame.rows[2][1] = Str(<<" ", "Q", " ">>)
    /\ \E k \in 1..Len(points) :
          /\ points[k].parameter = <<"P">>
          /\ points[k].value = 5
          /\ SubSeq(points[k].ts_utc, 12, 16) = <<"1", "7", ":", "3", "0">>
          /\ \A m \in 1..Len(points) : points[m].parameter = <<"P">> => m = k

\* C15: no point is emitted for a row whose first-column label is empty
\* (blank or missing) after trimming; every emitted point's parameter is the
\* trimmed, non-empty label text of its row.
C15_LabelledRowsOnly ==
    phase = "normalized" =>
        LET present == {i \in 1..Len(Remaining.rows) :
                           /\ Remaining.rows[i][1] # NaN
                           /\ Strip(AsStr(Remaining.rows[i][1])) # <<>>}
            cells == {c \in present \X StampColumns : Numeric(Remaining.rows[c[1]][c[2]])}
        IN  /\ Len(points) = Cardinality(cells)
            /\ \A k \in 1..Len(points) :
                  /\ points[k].parameter # <<>>
                  /\ \E i \in present : points[k].parameter = Strip(AsStr(Remaining.rows[i][1]))

(***************************************************************************)
(* Properties of header parsing (SpecParse)                                *)
(***************************************************************************)

\* the ways to read txt as month "/" day, at most one separator, an hour of
\* h digits (h in hourDigits) and a minute of two digits
Readings(txt, hourDigits) ==
    {k \in {1, 2} \X {1, 2} \X {0, 1} \X hourDigits : GroupsFit(txt, k[1], k[2], k[3], k[4])}

\* the reading with the longest day
LongestDay(txt) ==
    {k \in Readings(txt, {1, 2}) : \A k2 \in Readings(txt, {1, 2}) : k2[2] <= k[2]}

\* the date and time the reading k of txt denotes in the year y, NoMatch
\* when they are no calendar date and time
ReadingValue(txt, k, y) ==
    ToDatetime(y,
               SubSeq(txt, 1, k[1]),
               SubSeq(txt, k[1] + 2, k[1] + 1 + k[2]),
               SubSeq(txt, k[1] + 2 + k[2] + k[3], k[1] + 1 + k[2] + k[3] + k[4]),
               SubSeq(txt, k[1] + 2 + k[2] + k[3] + k[4], Len(txt)))

\* C9 as stated: a header is accepted exactly when its text is MM/DD, at
\* most one of "-", "_", " ", and HHMM with an hour of exactly two digits,
\* denoting a valid calendar date and time; any other header is rejected and
\* its column contributes no points.
C9_ExactlyTwoHourDigits ==
    LET txt == Strip(col) IN
    /\ phase # "input" =>
          (parsed # NoMatch <=>
              \E k \in Readings(txt, {2}) : ReadingValue(txt, k, year_hint) # NoMatch)
    /\ phase = "normalized" /\ parsed = NoMatch => points = <<>>

\* C9 (amended): the header is trimmed; it is accepted exactly when the text
\* is MM/DD, at most one of "-", "_", " ", an hour of one or two digits and a
\* minute of two digits, and its reading with the longest day denotes a valid
\* calendar date and time, which is then its timestamp; any other header is
\* rejected and its column contributes no points.
C9_HeaderAccepted ==
    LET txt == Strip(col) IN
    /\ phase # "input" =>
          /\ parsed # NoMatch <=>
                \E k \in LongestDay(txt) : ReadingValue(txt, k, year_hint) # NoMatch
          /\ \A k \in LongestDay(txt) : parsed = ReadingValue(txt, k, year_hint)
    /\ phase = "normalized" => (points = <<>> <=> parsed = NoMatch)

\* "08/21-930", an hour of one digit, is accepted as 21 August 09:30 and
\* its column contributes a point
C9_Witness ==
    /\ phase = "normalized"
    /\ col = <<"0", "8", "/", "2", "1", "-", "9", "3", "0">>
    /\ parsed.month = 8 /\ parsed.day = 21 /\ parsed.hour = 9 /\ parsed.minute = 30
    /\ Len(points) = 1

\* s is "YYYY-MM-DD HH:MM:SS+00:00"
FixedWidthUtc(s) ==
    /\ Len(s) = 25
    /\ \A i \in {1, 2, 3, 4, 6, 7, 9, 10, 12, 13, 15, 16, 18, 19} : IsDigit(s[i])
    /\ s[5] = "-" /\ s[8] = "-" /\ s[11] = " " /\ s[14] = ":" /\ s[17] = ":"
    /\ SubSeq(s, 20, 25) = <<"+", "0", "0", ":", "0", "0">>

\* the month, day, hour and minute of s are those of the reading k of txt,
\* its seconds are 00
WallClockOf(s, txt, k) ==
    /\ NumVal(SubSeq(s, 6, 7)) = NumVal(SubSeq(txt, 1, k[1]))
    /\ NumVal(SubSeq(s, 9, 10)) = NumVal(SubSeq(txt, k[1] + 2, k[1] + 1 + k[2]))
    /\ NumVal(SubSeq(s, 12, 13))
          = NumVal(SubSeq(txt, k[1] + 2 + k[2] + k[3], k[1] + 1 + k[2] + k[3] + k[4]))
    /\ NumVal(SubSeq(s, 15, 16)) = NumVal(SubSeq(txt, k[1] + 2 + k[2] + k[3] + k[4], Len(txt)))
    /\ SubSeq(s, 18, 19) = <<"0", "0">>

\* C10: every ts_utc that ingestion produces is the fixed-width text
\* "YYYY-MM-DD HH:MM:SS+00:00", offset +00:00 with the colon, and its month,
\* day, hour and minute are the wall-clock digits of the header.
C10_FixedWidthUtc ==
    LET txt == Strip(col) IN
    /\ phase \in {"formatted", "normalized"} /\ parsed # NoMatch =>
          /\ FixedWidthUtc(iso)
          /\ \A k \in LongestDay(txt) : WallClockOf(iso, txt, k)
    /\ \A i \in 1..Len(points) :
          /\ FixedWidthUtc(points[i].ts_utc)
          /\ \A k \in LongestDay(txt) : WallClockOf(points[i].ts_utc, txt, k)

\* " 8/21 1730 " in 2023 is stored as "2023-08-21 17:30:00+00:00"
C10_Witness ==
    /\ phase = "normalized"
    /\ col = <<" ", "8", "/", "2", "1", " ", "1", "7", "3", "0", " ">>
    /\ year_hint = 2023
    /\ Len(points) = 1
    /\ points[1].ts_utc =
          <<"2", "0", "2", "3", "-", "0", "8", "-", "2", "1", " ",
            "1", "7", ":", "3", "0", ":", "0", "0", "+", "0", "0", ":", "0", "0">>

====
